---- MODULE Spec2Model ----
(***************************************************************************)
(* Verification model of the real-time conversation orchestrator of       *)
(* zrobot-backend: the segment parser (app/services/agent.py), the        *)
(* connection registry (app/websocket/manager.py), the auth gate and the  *)
(* per-conversation pipeline (app/websocket/handler.py).                  *)
(*                                                                         *)
(* Text is modelled as a sequence of one-character strings, so that tags   *)
(* such as [S] can be cut in the middle by a chunk boundary.               *)
(***************************************************************************)
EXTENDS Integers, Sequences, FiniteSets, TLC

VARIABLES
    \* ---- segment parser harness (SpecParser) ----
    pWhole,     \* the whole LLM text of the run
    pRest,      \* the part of pWhole not yet fed
    parser,     \* the SegmentParser object
    pOut,       \* the segments returned by feed/finalize so far, in order
    pPhase,     \* "feeding" | "done"
    \* ---- connections of the one conversation modelled ----
    token,              \* token[c]: the token presented by connection attempt c
    ws,                 \* ws[c]: the WebSocket object: state and the closes the server sent
    ep,                 \* ep[c]: position of websocket_endpoint for attempt c
    active_connections, \* ConnectionManager.active_connections[conv]: a connection or NoConn
    connection_users,   \* ConnectionManager.connection_users[conv]: a user id or 0 (absent)
    lock,               \* ConnectionManager._lock: its holder or NoConn
    \* ---- shared keyed store (Redis) ----
    session,            \* hash conv:session:{id}
    rInterrupt,         \* key conv:interrupt:{id} holds "1"
    messages,           \* list conv:messages:{id}
    context_vars,       \* hash conv:vars:{id}
    \* ---- module-level dictionaries of handler.py, entry of the conversation ----
    conv_states,        \* conv_states[conv] or "absent"
    current_stream_id,  \* current_stream_id[conv] or "absent"
    interrupt_flags,    \* interrupt_flags.get(conv, False)
    asr_tasks,          \* asr_tasks[conv]: a worker or NoTask
    asr_queues,         \* asr_queues[conv]: a queue or NoTask
    vad_states,         \* vad_states[conv]: the VADState object or absent
    tts_last_chunk_sent_at, \* tts_last_chunk_sent_at has an entry for conv
    listening_since,    \* listening_since[conv]: "absent", or how its timestamp compares
                        \* with now ("fresh", or "stale": more than
                        \* LISTENING_TIMEOUT_SECONDS ago)
    \* ---- tasks of the event loop ----
    workers,            \* workers[w]: an asr_worker task
    queues,             \* queues[w]: the asyncio.Queue made for worker w
    turns,              \* turns[t]: a handle_text_message call
    ck,                 \* ck[k]: a handle_user_audio_chunk task
    env,                \* the run's environment: what the client may still send,
                        \* what the providers may stream, which of them may fail
    \* ---- history ----
    hist,               \* the handle_interrupt calls that ran while a turn was under way,
                        \* the length of the log when the first of them returned, and
                        \* the frames above the barge-in level handled in a row inside
                        \* the echo window
    \* ---- what the server sent ----
    sent                \* envelopes delivered, in order, each with the connection it went to

parserVars == <<pWhole, pRest, parser, pOut, pPhase>>
idVars == <<token, ws, lock>>
regVars == <<active_connections, connection_users>>
connVars == <<token, ws, ep, active_connections, connection_users, lock>>
redisVars == <<session, rInterrupt, messages, context_vars>>
memVars == <<conv_states, current_stream_id, interrupt_flags, asr_tasks, asr_queues,
             vad_states, tts_last_chunk_sent_at, listening_since>>
taskVars == <<workers, queues, turns, ck, env>>

vars == <<parserVars, connVars, redisVars, memVars, taskVars, hist, sent>>

(***************************************************************************)
(* Bounds                                                                  *)
(***************************************************************************)
\* number of [S]..[/S][B]..[/B] triples in a parser input
MaxTriples == 2
\* blocks (speech alone, speech with board, stray text) in a loose parser input
MaxPieces == 3
\* asr_worker tasks (and their queues) created in a run
MaxWorkers == 2
\* handle_text_message calls in a run
MaxTurns == 2
\* handle_user_audio_chunk tasks in a run
MaxChunkTasks == 3
\* audio events the TTS adapter emits for one segment
MaxTtsAudio == 2
\* interrupt envelopes the client sends in a run
MaxInterrupts == 2

(***************************************************************************)
(* Text helpers (Python str.find / str.strip / slicing)                    *)
(***************************************************************************)
Tag_S == <<"[", "S", "]">>
Tag_ES == <<"[", "/", "S", "]">>
Tag_B == <<"[", "B", "]">>
Tag_EB == <<"[", "/", "B", "]">>

\* tag occurs in buf at 1-based position i
OccursAt(buf, tag, i) ==
    /\ i + Len(tag) - 1 <= Len(buf)
    /\ SubSeq(buf, i, i + Len(tag) - 1) = tag

\* str.find: 0-based index of the first occurrence, -1 when absent
Find(buf, tag) ==
    IF \E i \in 1..Len(buf) : OccursAt(buf, tag, i)
    THEN (CHOOSE i \in 1..Len(buf) :
             /\ OccursAt(buf, tag, i)
             /\ \A j \in 1..(i - 1) : ~OccursAt(buf, tag, j)) - 1
    ELSE -1

\* buf[n:] and buf[:n] for 0 <= n
From(buf, n) == SubSeq(buf, n + 1, Len(buf))
Upto(buf, n) == SubSeq(buf, 1, n)

IsSpace(c) == c = " "

RECURSIVE LStrip(_)
LStrip(s) == IF s # <<>> /\ IsSpace(Head(s)) THEN LStrip(Tail(s)) ELSE s

RECURSIVE RStrip(_)
RStrip(s) ==
    IF s # <<>> /\ IsSpace(s[Len(s)]) THEN RStrip(SubSeq(s, 1, Len(s) - 1)) ELSE s

\* str.strip()
Strip(s) == RStrip(LStrip(s))

(***************************************************************************)
(* SegmentParser (agent.py)                                                *)
(***************************************************************************)
Segment(id, speech, board) == [segment_id |-> id, speech |-> speech, board |-> board]

\* SegmentParser.__init__ / reset
ParserInit ==
    [buffer |-> <<>>, current_segment_id |-> 0, current_speech |-> <<>>,
     current_board |-> <<>>, in_speech |-> FALSE, in_board |-> FALSE]

\* One pass of the while-loop body of feed works on r = [p, segs, brk]:
\* p the parser, segs the segments collected, brk whether `break` was hit.

\* "Look for [S] start tag"
FeedFindS(r) ==
    IF r.brk \/ r.p.in_speech \/ r.p.in_board THEN r
    ELSE LET s_start == Find(r.p.buffer, Tag_S) IN
         IF s_start # -1
         THEN [r EXCEPT !.p.buffer = From(r.p.buffer, s_start + 3),
                        !.p.in_speech = TRUE,
                        !.p.current_speech = <<>>]
         ELSE [r EXCEPT !.brk = TRUE]

\* "Look for [/S] end tag"
FeedFindES(r) ==
    IF r.brk \/ ~r.p.in_speech THEN r
    ELSE LET s_end == Find(r.p.buffer, Tag_ES) IN
         IF s_end # -1
         THEN [r EXCEPT !.p.current_speech = Strip(Upto(r.p.buffer, s_end)),
                        !.p.buffer = From(r.p.buffer, s_end + 4),
                        !.p.in_speech = FALSE]
         ELSE [r EXCEPT !.brk = TRUE]

\* "Look for [B] start tag"
FeedFindB(r) ==
    IF r.brk \/ r.p.in_speech \/ r.p.in_board \/ r.p.current_speech = <<>> THEN r
    ELSE LET b_start == Find(r.p.buffer, Tag_B) IN
         IF b_start # -1
         THEN [r EXCEPT !.p.buffer = From(r.p.buffer, b_start + 3),
                        !.p.in_board = TRUE,
                        !.p.current_board = <<>>]
         ELSE [r EXCEPT !.brk = TRUE]

\* "Look for [/B] end tag" and emit the complete segment
FeedFindEB(r) ==
    IF r.brk \/ ~r.p.in_board THEN r
    ELSE LET b_end == Find(r.p.buffer, Tag_EB) IN
         IF b_end # -1
         THEN [p |-> [r.p EXCEPT !.buffer = From(r.p.buffer, b_end + 4),
                                 !.in_board = FALSE,
                                 !.current_segment_id = r.p.current_segment_id + 1,
                                 !.current_speech = <<>>,
                                 !.current_board = <<>>],
               segs |-> Append(r.segs,
                               Segment(r.p.current_segment_id, r.p.current_speech,
                                       Strip(Upto(r.p.buffer, b_end)))),
               brk |-> FALSE]
         ELSE [r EXCEPT !.brk = TRUE]

RECURSIVE FeedLoop(_)
FeedLoop(r) ==
    LET r4 == FeedFindEB(FeedFindB(FeedFindES(FeedFindS(r)))) IN
    IF r4.brk THEN r4 ELSE FeedLoop(r4)

\* SegmentParser.feed(chunk): [p |-> parser after, segs |-> segments returned]
Feed(p, chunk) ==
    LET r == FeedLoop([p |-> [p EXCEPT !.buffer = p.buffer \o chunk],
                       segs |-> <<>>, brk |-> FALSE])
    IN [p |-> r.p, segs |-> r.segs]

\* SegmentParser.finalize(): [p |-> parser after (reset), segs |-> <<>> or one segment]
Finalize(p) ==
    IF p.current_speech # <<>> /\ p.current_board # <<>>
    THEN [p |-> ParserInit,
          segs |-> <<Segment(p.current_segment_id, p.current_speech, p.current_board)>>]
    ELSE IF p.current_speech # <<>> /\ p.in_board /\ p.buffer # <<>>
    THEN [p |-> ParserInit,
          segs |-> <<Segment(p.current_segment_id, p.current_speech, Strip(p.buffer))>>]
    ELSE [p |-> ParserInit, segs |-> <<>>]

(***************************************************************************)
(* Parser harness: a well-formed text is cut into chunks at arbitrary      *)
(* places; each chunk is fed, then the parser is finalized.                *)
(***************************************************************************)
Speeches == {<<"a">>, <<" ", "c", " ">>}
Boards == {<<"b">>, <<"d", " ">>}

Triple(a, b) == Tag_S \o a \o Tag_ES \o Tag_B \o b \o Tag_EB

Triples == {Triple(a, b) : a \in Speeches, b \in Boards}

RECURSIVE Concat(_)
Concat(ss) == IF ss = <<>> THEN <<>> ELSE Head(ss) \o Concat(Tail(ss))

WellFormedTexts ==
    {Concat(ts) : ts \in UNION {[1..n -> Triples] : n \in 1..MaxTriples}}

\* the reference run: the whole text as one chunk, then finalize
WholeFeed(text) ==
    LET f == Feed(ParserInit, text) IN f.segs \o Finalize(f.p).segs

ParserHarnessInit ==
    /\ pWhole \in WellFormedTexts
    /\ pRest = pWhole
    /\ parser = ParserInit
    /\ pOut = <<>>
    /\ pPhase = "feeding"

\* parser.feed(chunk) for the next n characters of the stream
PFeed ==
    /\ pPhase = "feeding"
    /\ pRest # <<>>
    /\ \E n \in 1..Len(pRest) :
         LET f == Feed(parser, Upto(pRest, n)) IN
         /\ parser' = f.p
         /\ pOut' = pOut \o f.segs
         /\ pRest' = From(pRest, n)
    /\ UNCHANGED <<pWhole, pPhase>>
    /\ UNCHANGED <<hist, connVars, redisVars, memVars, taskVars, sent>>

\* parser.finalize() when the stream has ended
PFinalize ==
    /\ pPhase = "feeding"
    /\ pRest = <<>>
    /\ LET f == Finalize(parser) IN
         /\ parser' = f.p
         /\ pOut' = pOut \o f.segs
    /\ pPhase' = "done"
    /\ UNCHANGED <<pWhole, pRest>>
    /\ UNCHANGED <<hist, connVars, redisVars, memVars, taskVars, sent>>

(***************************************************************************)
(* The conversation modelled, its users, and the connection attempts.      *)
(***************************************************************************)
ThisConv == "conv9"
ConvIds == {"conv9", "conv8"}
Users == {42, 43}
Conns == {1, 2}
\* dict.get(conversation_id) returning None
NoConn == 0
NoTask == NoConn

\* A presented token: whether jwt.decode accepts it (signature and expiry)
\* and the payload fields the gate reads.
Tokens ==
    [sig_ok : BOOLEAN, expired : BOOLEAN, type : {"ws", "access"},
     conversation_id : ConvIds, user_id : Users]

\* the token create_ws_token makes for this conversation and its owner
ValidToken ==
    [sig_ok |-> TRUE, expired |-> FALSE, type |-> "ws",
     conversation_id |-> ThisConv, user_id |-> 42]

\* conv:session:{id} as the external collaborator seeds it (or not at all)
NoSession ==
    [exists |-> FALSE, user_id |-> 0, status |-> "absent", state |-> "absent",
     ws_connected |-> "absent", initial |-> FALSE]

SeededSession(status, initial) ==
    [exists |-> TRUE, user_id |-> 42, status |-> status, state |-> "absent",
     ws_connected |-> "absent", initial |-> initial]

\* conv:vars:{id}: context_image_url and, as one field, the other variables
NoVars == [exists |-> FALSE, context_image_url |-> "absent", other |-> "absent"]

\* create_conversation: hmset of the context variables of the question
SeededVars == [exists |-> TRUE, context_image_url |-> "question.png", other |-> "question"]

\* redis hset on the session hash: creates the key when it is missing
HSetWsConnected(sess, v) == [sess EXCEPT !.exists = TRUE, !.ws_connected = v]
HSetState(sess, v) == [sess EXCEPT !.exists = TRUE, !.state = v]
\* hset of a field the model does not read (last_active_at, tts_playing)
HSetOther(sess) == [sess EXCEPT !.exists = TRUE]

(***************************************************************************)
(* Auth gate (handler.verify_connection, security.decode_ws_token)         *)
(***************************************************************************)
\* decode_ws_token returns a payload (TRUE) or None (FALSE)
DecodeWsToken(tok) == tok.sig_ok /\ ~tok.expired /\ tok.type = "ws"

\* the status check placed before the user check
VerifyConnection_StatusFirst(tok, sess) ==
    IF ~DecodeWsToken(tok) THEN 4001
    ELSE IF tok.conversation_id # ThisConv THEN 4002
    ELSE IF ~sess.exists THEN 4003
    ELSE IF sess.status # "active" THEN 4005
    ELSE IF sess.user_id # tok.user_id THEN 4004
    ELSE 0

\* verify_connection: the close code, or 0 when the user id is returned
VerifyConnection(tok, sess) ==
    IF ~DecodeWsToken(tok) THEN 4001
    ELSE IF tok.conversation_id # ThisConv THEN 4002
    ELSE IF ~sess.exists THEN 4003
    ELSE IF sess.user_id # tok.user_id THEN 4004
    ELSE IF sess.status # "active" THEN 4005
    ELSE 0

CloseReason(code) ==
    CASE code = 4001 -> "Invalid token"
      [] code = 4002 -> "Token does not match conversation"
      [] code = 4003 -> "Conversation not found or expired"
      [] code = 4004 -> "User mismatch"
      [] OTHER -> "Conversation is not active"

\* WebSocket.close(code, reason) by the server: recorded once per socket; a
\* close on a socket that is already closed raises and changes nothing
WsClose(w, code, reason) ==
    IF w.st = "closed" THEN w
    ELSE [w EXCEPT !.st = "closed",
                   !.closes = Append(w.closes, [code |-> code, reason |-> reason])]

(***************************************************************************)
(* ConnectionManager.send_message                                          *)
(***************************************************************************)
\* An envelope as the log keeps it: its type, the connection it went to,
\* the turn that sent it (0: none), the segment it is about (-1: none), a
\* number of its payload (seq, last_seq, index, total_segments, code; else 0)
\* and a word of its payload (state, reason, stream_id; else "").
Envelope(type, turn, seg, n, info) ==
    [type |-> type, to |-> active_connections, turn |-> turn, seg |-> seg,
     n |-> n, info |-> info]

\* send_json on the registered socket raises when that socket is closed
SendFails == active_connections # NoConn /\ ws[active_connections].st # "open"

\* send_message that leaves the registry alone when the send raises
SendMessage_KeepEntry(type, turn, seg, n, info) ==
    /\ sent' = IF active_connections # NoConn /\ ~SendFails
               THEN Append(sent, Envelope(type, turn, seg, n, info))
               ELSE sent
    /\ UNCHANGED <<active_connections, connection_users, session>>

\* send_message: delivered to the registered connection; False when none is
\* registered; when the send raises, disconnect(conversation_id) runs (the
\* registry entries are deleted and ws_connected is set to false)
SendMessage(type, turn, seg, n, info) ==
    /\ SendFails => lock = NoConn
    /\ sent' = IF active_connections # NoConn /\ ~SendFails
               THEN Append(sent, Envelope(type, turn, seg, n, info))
               ELSE sent
    /\ active_connections' = IF SendFails THEN NoConn ELSE active_connections
    /\ connection_users' = IF SendFails THEN 0 ELSE connection_users
    /\ session' = IF SendFails THEN HSetWsConnected(session, "false") ELSE session

\* send_state_change up to its second await: the state envelope, conv_states
SendStateChange1(state, turn) ==
    /\ SendMessage("state", turn, -1, 0, state)
    /\ conv_states' = state

\* send_state_change from its second await on: the hash field, listening_since
SendStateChange2(state) ==
    /\ session' = HSetState(session, state)
    /\ listening_since' = IF state = "listening" THEN "fresh" ELSE "absent"
(***************************************************************************)
(* Tasks of the event loop.  A step of a task is the completion of one     *)
(* await with the synchronous code that follows it, up to the next await.  *)
(***************************************************************************)
WorkerIds == 1..MaxWorkers
TurnIds == 1..MaxTurns
ChunkIds == 1..MaxChunkTasks
Streams == {"s1", "s2"}

\* the callers of handle_interrupt / ensure_asr_session: the receive loop of
\* a connection, or an audio-chunk task
Callers == ({"ep"} \X Conns) \cup ({"ck"} \X ChunkIds)

Rec(r) == IF r[1] = "ep" THEN ep[r[2]] ELSE ck[r[2]]

Put(r, rec) ==
    IF r[1] = "ep"
    THEN ep' = [ep EXCEPT ![r[2]] = rec] /\ ck' = ck
    ELSE ck' = [ck EXCEPT ![r[2]] = rec] /\ ep' = ep

Goto(r, pc) == Put(r, [Rec(r) EXCEPT !.pc = pc])

\* task is registered and not task.done()
Alive(w) == w # NoTask /\ workers[w].pc # "done"

\* VADState() as constructed; obj tells one object from the next
NewVad(obj) == [present |-> TRUE, obj |-> obj, barge_in_frames |-> 0,
                in_speech |-> FALSE, silence_ms |-> 0]
NoVad == [present |-> FALSE, obj |-> 0, barge_in_frames |-> 0,
          in_speech |-> FALSE, silence_ms |-> 0]

(***************************************************************************)
(* stop_asr_session                                                        *)
(***************************************************************************)
\* queue.put(None) on the registered queue
StopQueues ==
    IF asr_queues # NoTask
    THEN [queues EXCEPT ![asr_queues].items = Append(@, "None")]
    ELSE queues

\* task.cancel() on the registered worker unless it is done
StopWorkers ==
    IF Alive(asr_tasks)
    THEN [workers EXCEPT ![asr_tasks].cancelled = TRUE]
    ELSE workers

(***************************************************************************)
(* handle_interrupt, called by r                                           *)
(***************************************************************************)
\* handle_text_message call t has announced PROCESSING and has not yet sent
\* its done or error envelope
TurnLive(t) ==
    turns[t].pc \in {"proc2", "agent_clear", "ctx", "llm", "fin", "store", "yield",
                     "hcheck", "speak2", "segstart", "tts", "board", "done_send"}

\* redis set conv:interrupt, interrupt_flags, stop_asr_session up to `await task`
IntSet(r) ==
    /\ Rec(r).pc = "int_set"
    /\ rInterrupt' = TRUE
    /\ interrupt_flags' = TRUE
    /\ queues' = StopQueues
    /\ workers' = StopWorkers
    /\ IF Alive(asr_tasks)
       THEN /\ Put(r, [Rec(r) EXCEPT !.pc = "int_wait", !.wait = asr_tasks])
            /\ current_stream_id' = current_stream_id
       ELSE /\ Goto(r, "int_hset")
            /\ current_stream_id' = "absent"
    /\ hist' = [hist EXCEPT !.begun[r] = {t \in TurnIds : TurnLive(t)}]
    /\ UNCHANGED <<parserVars, idVars, regVars, session, messages, context_vars, sent>>
    /\ UNCHANGED <<conv_states, asr_tasks, asr_queues, vad_states,
                   tts_last_chunk_sent_at, listening_since, turns, env>>

\* stop_asr_session: the cancelled worker has ended; current_stream_id.pop
IntWait(r) ==
    /\ Rec(r).pc = "int_wait"
    /\ workers[Rec(r).wait].pc = "done"
    /\ current_stream_id' = "absent"
    /\ Goto(r, "int_hset")
    /\ UNCHANGED <<parserVars, hist, idVars, regVars, redisVars, sent>>
    /\ UNCHANGED <<conv_states, interrupt_flags, asr_tasks, asr_queues, vad_states,
                   tts_last_chunk_sent_at, listening_since>>
    /\ UNCHANGED <<workers, queues, turns, env>>

\* hset tts_playing = false
IntHset(r) ==
    /\ Rec(r).pc = "int_hset"
    /\ session' = HSetOther(session)
    /\ Goto(r, "int_lis")
    /\ UNCHANGED <<parserVars, hist, idVars, regVars, rInterrupt, messages, context_vars, memVars, sent>>
    /\ UNCHANGED <<workers, queues, turns, env>>

\* send_state_change(LISTENING): envelope and conv_states
IntLis(r) ==
    /\ Rec(r).pc = "int_lis"
    /\ SendStateChange1("listening", 0)
    /\ Goto(r, "int_lis2")
    /\ UNCHANGED <<parserVars, hist, idVars, rInterrupt, messages, context_vars>>
    /\ UNCHANGED <<current_stream_id, interrupt_flags, asr_tasks, asr_queues, vad_states,
                   tts_last_chunk_sent_at, listening_since>>
    /\ UNCHANGED <<workers, queues, turns, env>>

\* send_state_change(LISTENING): hash field; handle_interrupt returns: the
\* receive loop waits for the next envelope, the audio-chunk task goes on
\* to ensure_asr_session (feed_asr holds when barge-in triggered)
IntLis2(r) ==
    /\ Rec(r).pc = "int_lis2"
    /\ SendStateChange2("listening")
    /\ Goto(r, IF r[1] = "ep" THEN "loop" ELSE "ens_begin")
    /\ hist' = [hist EXCEPT !.begun[r] = {},
                            !.ran = [t \in TurnIds |->
                                        IF t \in hist.begun[r] THEN @[t] + 1 ELSE @[t]],
                            !.mark = [t \in TurnIds |->
                                         IF t \in hist.begun[r] /\ hist.ran[t] = 0
                                         THEN Len(sent) ELSE @[t]]]
    /\ UNCHANGED <<parserVars, idVars, regVars, rInterrupt, messages, context_vars, sent>>
    /\ UNCHANGED <<conv_states, current_stream_id, interrupt_flags, asr_tasks, asr_queues,
                   vad_states, tts_last_chunk_sent_at>>
    /\ UNCHANGED <<workers, queues, turns, env>>

(***************************************************************************)
(* ensure_asr_session(stream_id), called by r                              *)
(***************************************************************************)
\* a queue (and worker) identity not used yet
FreshWorker == CHOOSE w \in WorkerIds : ~queues[w].made /\ \A v \in 1..(w - 1) : queues[v].made

\* the registered task is looked up: reuse, stop it, or go on to a new session
EnsBegin(r) ==
    /\ Rec(r).pc = "ens_begin"
    /\ IF Alive(asr_tasks) /\ current_stream_id = Rec(r).stream
       THEN \* return asr_queues[conversation_id]
            /\ Put(r, [Rec(r) EXCEPT !.pc = IF r[1] = "ep" THEN "loop" ELSE "ck_put",
                                     !.q = asr_queues])
            /\ UNCHANGED <<queues, workers, current_stream_id>>
       ELSE IF Alive(asr_tasks)
       THEN \* stop_asr_session up to `await task`
            /\ queues' = StopQueues
            /\ workers' = StopWorkers
            /\ Put(r, [Rec(r) EXCEPT !.pc = "ens_wait", !.wait = asr_tasks])
            /\ UNCHANGED current_stream_id
       ELSE /\ current_stream_id' = Rec(r).stream
            /\ Goto(r, "ens_clear")
            /\ UNCHANGED <<queues, workers>>
    /\ UNCHANGED <<parserVars, hist, idVars, regVars, redisVars, sent>>
    /\ UNCHANGED <<conv_states, interrupt_flags, asr_tasks, asr_queues, vad_states,
                   tts_last_chunk_sent_at, listening_since, turns, env>>

\* stop_asr_session returns (current_stream_id.pop), current_stream_id is set
EnsWait(r) ==
    /\ Rec(r).pc = "ens_wait"
    /\ workers[Rec(r).wait].pc = "done"
    /\ current_stream_id' = Rec(r).stream
    /\ Goto(r, "ens_clear")
    /\ UNCHANGED <<parserVars, hist, idVars, regVars, redisVars, sent>>
    /\ UNCHANGED <<conv_states, interrupt_flags, asr_tasks, asr_queues, vad_states,
                   tts_last_chunk_sent_at, listening_since>>
    /\ UNCHANGED <<workers, queues, turns, env>>

\* clear_interrupt (redis delete, flag), the new queue is registered
EnsClear(r) ==
    /\ Rec(r).pc = "ens_clear"
    /\ \E w \in WorkerIds : ~queues[w].made
    /\ rInterrupt' = FALSE
    /\ interrupt_flags' = FALSE
    /\ queues' = [queues EXCEPT ![FreshWorker].made = TRUE]
    /\ asr_queues' = FreshWorker
    /\ Put(r, [Rec(r) EXCEPT !.pc = "ens_lis", !.q = FreshWorker])
    /\ UNCHANGED <<parserVars, hist, idVars, regVars, session, messages, context_vars, sent>>
    /\ UNCHANGED <<conv_states, current_stream_id, asr_tasks, vad_states,
                   tts_last_chunk_sent_at, listening_since>>
    /\ UNCHANGED <<workers, turns, env>>

\* send_state_change(LISTENING): envelope and conv_states
EnsLis(r) ==
    /\ Rec(r).pc = "ens_lis"
    /\ SendStateChange1("listening", 0)
    /\ Goto(r, "ens_lis2")
    /\ UNCHANGED <<parserVars, hist, idVars, rInterrupt, messages, context_vars>>
    /\ UNCHANGED <<current_stream_id, interrupt_flags, asr_tasks, asr_queues, vad_states,
                   tts_last_chunk_sent_at, listening_since>>
    /\ UNCHANGED <<workers, queues, turns, env>>

\* send_state_change(LISTENING): hash field; the worker task is created and
\* registered; the queue is returned
EnsLis2(r) ==
    /\ Rec(r).pc = "ens_lis2"
    /\ SendStateChange2("listening")
    /\ workers' = [workers EXCEPT ![Rec(r).q] =
                      [@ EXCEPT !.pc = "stream", !.stream = Rec(r).stream]]
    /\ asr_tasks' = Rec(r).q
    /\ Goto(r, IF r[1] = "ep" THEN "loop" ELSE "ck_put")
    /\ UNCHANGED <<parserVars, hist, idVars, regVars, rInterrupt, messages, context_vars, sent>>
    /\ UNCHANGED <<conv_states, current_stream_id, interrupt_flags, asr_queues,
                   vad_states, tts_last_chunk_sent_at>>
    /\ UNCHANGED <<queues, turns, env>>
(***************************************************************************)
(* Frames shared by the pipeline steps                                     *)
(***************************************************************************)
callerVars == <<ep, ck>>
\* what send_state_change leaves alone in its first and in its second part
memButState == <<current_stream_id, interrupt_flags, asr_tasks, asr_queues, vad_states,
                 tts_last_chunk_sent_at, listening_since>>
memButListening == <<conv_states, current_stream_id, interrupt_flags, asr_tasks, asr_queues,
                     vad_states, tts_last_chunk_sent_at>>

(***************************************************************************)
(* asr_worker w (ensure_asr_session.asr_worker), reading queue w through   *)
(* ASRService.transcribe_stream                                            *)
(***************************************************************************)
NoWorker == [pc |-> "unborn", cancelled |-> FALSE, stream |-> "absent", fed |-> FALSE,
             ended |-> FALSE, last_partial |-> FALSE, turn |-> 0]

\* `finally` of asr_worker: the registry entries go if they hold this task
FinallyTasks(w) == IF asr_tasks = w THEN NoTask ELSE asr_tasks
FinallyQueues(w) == IF asr_tasks = w THEN NoTask ELSE asr_queues

\* the run follows one more handle_text_message call
TurnsLeft ==
    /\ \E t \in TurnIds : turns[t].pc = "unborn"
    /\ Cardinality({t \in TurnIds : turns[t].pc # "unborn"}) < env.turns

\* a handle_text_message call not made yet
FreshTurn == CHOOSE t \in TurnIds : turns[t].pc = "unborn" /\ \A u \in 1..(t - 1) : turns[u].pc # "unborn"

NoTurn ==
    [pc |-> "unborn", host |-> 0, script |-> <<>>, parser |-> ParserInit, pending |-> <<>>,
     seg |-> Segment(0, <<>>, <<>>), gen |-> "llm", segment_count |-> 0,
     interrupted |-> FALSE, full |-> FALSE, tts |-> "sentence", tts_n |-> 0,
     audio_seq |-> 0, llm_end |-> "open", tts_failed |-> FALSE]

\* handle_text_message is entered, by worker host or (0) as a task of its own
NewTurn(host) == [NoTurn EXCEPT !.pc = "begin", !.host = host]

\* send_task: the next item of the queue; None, or the interrupt predicate,
\* ends the audio and the end packet goes out
WConsume(w) ==
    /\ workers[w].pc = "stream"
    /\ ~workers[w].cancelled
    /\ ~workers[w].ended
    /\ queues[w].items # <<>>
    /\ queues' = [queues EXCEPT ![w].items = Tail(@)]
    /\ workers' = IF Head(queues[w].items) = "None" \/ interrupt_flags
                  THEN [workers EXCEPT ![w].ended = TRUE]
                  ELSE [workers EXCEPT ![w].fed = TRUE]
    /\ UNCHANGED <<parserVars, hist, connVars, redisVars, memVars, turns, ck, env, sent>>

\* a non-final result with text: asr_partial (the first one of the stream;
\* further partials repeat the step)
WPartial(w) ==
    /\ workers[w].pc = "stream"
    /\ ~workers[w].cancelled
    /\ workers[w].fed
    /\ ~workers[w].last_partial
    /\ ~interrupt_flags
    /\ SendMessage("asr_partial", 0, -1, 0, workers[w].stream)
    /\ workers' = [workers EXCEPT ![w].last_partial = TRUE]
    /\ UNCHANGED <<parserVars, hist, idVars, rInterrupt, messages, context_vars, memVars, callerVars>>
    /\ UNCHANGED <<queues, turns, env>>

\* PARTIAL_STABLE_SECONDS pass while the worker waits for the next result
\* and the partial it sent stays the latest: no code of asr_worker runs
PartialStable(w) ==
    /\ workers[w].pc = "stream"
    /\ ~workers[w].cancelled
    /\ workers[w].last_partial
    /\ ~env.stable
    /\ env' = [env EXCEPT !.stable = TRUE]
    /\ UNCHANGED <<parserVars, hist, connVars, redisVars, memVars, sent>>
    /\ UNCHANGED <<callerVars, workers, queues, turns>>

\* a final result with text: asr_final, the loop is left
WFinal(w) ==
    /\ workers[w].pc = "stream"
    /\ ~workers[w].cancelled
    /\ workers[w].fed
    /\ ~interrupt_flags
    /\ SendMessage("asr_final", 0, -1, 0, workers[w].stream)
    /\ workers' = [workers EXCEPT ![w].pc = "check"]
    /\ UNCHANGED <<parserVars, hist, idVars, rInterrupt, messages, context_vars, memVars, callerVars>>
    /\ UNCHANGED <<queues, turns, env>>

\* the end of the result stream with the last partial left as it is
WStreamEnd_NoPromote(w) ==
    /\ workers[w].pc = "stream"
    /\ ~workers[w].cancelled
    /\ workers[w].ended \/ interrupt_flags \/ "asr" \in env.faults
    /\ workers' = [workers EXCEPT ![w].pc = "lis"]
    /\ UNCHANGED <<regVars, session, sent>>
    /\ UNCHANGED <<parserVars, hist, idVars, rInterrupt, messages, context_vars, memVars, callerVars>>
    /\ UNCHANGED <<queues, turns, env>>

\* the result stream ends without a final result (last package after the end
\* packet, the interrupt predicate, or a provider error code): the last
\* partial is promoted
WStreamEnd(w) ==
    /\ workers[w].pc = "stream"
    /\ ~workers[w].cancelled
    /\ workers[w].ended \/ interrupt_flags \/ "asr" \in env.faults
    /\ IF workers[w].last_partial
       THEN /\ SendMessage("asr_final", 0, -1, 0, workers[w].stream)
            /\ workers' = [workers EXCEPT ![w].pc = "check"]
       ELSE /\ workers' = [workers EXCEPT ![w].pc = "lis"]
            /\ UNCHANGED <<regVars, session, sent>>
    /\ UNCHANGED <<parserVars, hist, idVars, rInterrupt, messages, context_vars, memVars, callerVars>>
    /\ UNCHANGED <<queues, turns, env>>

\* transcribe_stream raises: error 5001
WError(w) ==
    /\ workers[w].pc = "stream"
    /\ "asr" \in env.faults
    /\ ~workers[w].cancelled
    /\ SendMessage("error", 0, -1, 5001, "")
    /\ workers' = [workers EXCEPT ![w].pc = "lis"]
    /\ UNCHANGED <<parserVars, hist, idVars, rInterrupt, messages, context_vars, memVars, callerVars>>
    /\ UNCHANGED <<queues, turns, env>>

\* `if final_text and not await check_interrupt`: handle_text_message is
\* entered inline, else LISTENING
WCheck(w) ==
    /\ workers[w].pc = "check"
    /\ ~workers[w].cancelled
    /\ rInterrupt \/ TurnsLeft
    /\ IF rInterrupt
       THEN /\ workers' = [workers EXCEPT ![w].pc = "lis"]
            /\ turns' = turns
       ELSE /\ workers' = [workers EXCEPT ![w].pc = "turn", ![w].turn = FreshTurn]
            /\ turns' = [turns EXCEPT ![FreshTurn] = NewTurn(w)]
    /\ UNCHANGED <<parserVars, hist, connVars, redisVars, memVars, queues, ck, env, sent>>

\* send_state_change(LISTENING): envelope and conv_states
WLis(w) ==
    /\ workers[w].pc = "lis"
    /\ ~workers[w].cancelled
    /\ SendStateChange1("listening", 0)
    /\ workers' = [workers EXCEPT ![w].pc = "lis2"]
    /\ UNCHANGED <<parserVars, hist, idVars, rInterrupt, messages, context_vars, memButState, callerVars>>
    /\ UNCHANGED <<queues, turns, env>>

\* send_state_change(LISTENING): hash field; the worker ends through finally
WLis2(w) ==
    /\ workers[w].pc = "lis2"
    /\ ~workers[w].cancelled
    /\ SendStateChange2("listening")
    /\ workers' = [workers EXCEPT ![w].pc = "done"]
    /\ asr_tasks' = FinallyTasks(w)
    /\ asr_queues' = FinallyQueues(w)
    /\ UNCHANGED <<parserVars, hist, idVars, regVars, rInterrupt, messages, context_vars, sent, callerVars>>
    /\ UNCHANGED <<conv_states, current_stream_id, interrupt_flags, vad_states,
                   tts_last_chunk_sent_at>>
    /\ UNCHANGED <<queues, turns, env>>

\* CancelledError is raised at the await the worker is suspended in (inside
\* handle_text_message when a turn runs in it): nothing but finally runs
WCancelled(w) ==
    /\ workers[w].pc \notin {"unborn", "done"}
    /\ workers[w].cancelled
    /\ workers' = [workers EXCEPT ![w].pc = "done"]
    /\ turns' = IF workers[w].pc = "turn"
                THEN [turns EXCEPT ![workers[w].turn].pc = "cancelled"]
                ELSE turns
    /\ asr_tasks' = FinallyTasks(w)
    /\ asr_queues' = FinallyQueues(w)
    /\ UNCHANGED <<parserVars, hist, connVars, redisVars, sent>>
    /\ UNCHANGED <<conv_states, current_stream_id, interrupt_flags, vad_states,
                   tts_last_chunk_sent_at, listening_since>>
    /\ UNCHANGED <<queues, ck, env>>
(***************************************************************************)
(* handle_text_message, call t, with the generator it drives               *)
(* (AIAgent.process_text_with_segments over LLMService.chat_stream) and    *)
(* the TTS event stream of each segment                                    *)
(***************************************************************************)
\* what the LLM provider streams, as the chunks of its deltas
Scripts ==
    { <<Triple(<<"a">>, <<"b">>), Triple(<<"c">>, <<"d">>)>>,
      <<Triple(<<"a">>, <<"b">>) \o Triple(<<"c">>, <<"d">>)>>,
      <<Tag_S \o <<"a">> \o Tag_ES \o Tag_B \o <<"b">>>>,
      <<Tag_S \o <<"a">> \o Tag_ES, Tag_B \o <<"b">> \o Tag_EB>> }

\* the fallback segment for an expired session
ExpiredSegment == Segment(0, <<"x">>, <<"n">>)

\* the fallback segment of `except Exception` in process_text_with_segments
ErrorSegment == Segment(0, <<"e">>, <<"n">>)

\* the task running the call has not been cancelled
Runnable(t) == IF turns[t].host = 0 THEN TRUE ELSE ~workers[turns[t].host].cancelled

At(t, pc) == turns[t].pc = pc /\ Runnable(t)

TGoto(t, pc) == turns' = [turns EXCEPT ![t].pc = pc]

\* update_last_active
TBegin(t) ==
    /\ At(t, "begin")
    /\ session' = HSetOther(session)
    /\ TGoto(t, "proc")
    /\ UNCHANGED <<parserVars, hist, idVars, regVars, rInterrupt, messages, context_vars, memVars, sent>>
    /\ UNCHANGED <<callerVars, workers, queues, env>>

\* send_state_change(PROCESSING): envelope and conv_states
TProc(t) ==
    /\ At(t, "proc")
    /\ SendStateChange1("processing", t)
    /\ TGoto(t, "proc2")
    /\ UNCHANGED <<parserVars, hist, idVars, rInterrupt, messages, context_vars, memButState>>
    /\ UNCHANGED <<callerVars, workers, queues, env>>

\* send_state_change(PROCESSING): hash field
TProc2(t) ==
    /\ At(t, "proc2")
    /\ SendStateChange2("processing")
    /\ TGoto(t, "agent_clear")
    /\ UNCHANGED <<parserVars, hist, idVars, regVars, rInterrupt, messages, context_vars, memButListening, sent>>
    /\ UNCHANGED <<callerVars, workers, queues, env>>

\* process_text_with_segments: AIAgent.clear_interrupt (the redis key only)
TAgentClear(t) ==
    /\ At(t, "agent_clear")
    /\ rInterrupt' = FALSE
    /\ TGoto(t, "ctx")
    /\ UNCHANGED <<parserVars, hist, idVars, regVars, session, messages, context_vars, memVars, sent>>
    /\ UNCHANGED <<callerVars, workers, queues, env>>

\* get_conversation_context: no session, the fallback segment is yielded;
\* else the user message is stored and the LLM stream is opened
TContext(t) ==
    /\ At(t, "ctx")
    /\ IF ~session.exists
       THEN /\ turns' = [turns EXCEPT ![t] =
                            [@ EXCEPT !.pc = "hcheck", !.seg = ExpiredSegment,
                                      !.gen = "expired"]]
            /\ messages' = messages
       ELSE /\ \E s \in env.scripts :
                 turns' = [turns EXCEPT ![t] = [@ EXCEPT !.pc = "llm", !.script = s]]
            /\ messages' = Append(messages, [role |-> "user", turn |-> t])
    /\ UNCHANGED <<parserVars, hist, idVars, regVars, session, rInterrupt, context_vars,
                   memVars, sent>>
    /\ UNCHANGED <<callerVars, workers, queues, env>>

\* the session key reaches its time to live (set when the conversation is
\* created) and Redis drops it; here before any turn has loaded its context
SessionVanishes ==
    /\ env.vanish = "due"
    /\ session.exists
    /\ \A t \in TurnIds :
          turns[t].pc \in {"unborn", "begin", "proc", "proc2", "agent_clear", "ctx"}
    /\ session' = NoSession
    /\ env' = [env EXCEPT !.vanish = "done"]
    /\ UNCHANGED <<parserVars, hist, connVars, rInterrupt, messages, context_vars, memVars, sent>>
    /\ UNCHANGED <<workers, queues, turns, ck>>

\* chat_stream: a line with a delta arrives; the interrupt check ends the
\* stream, else the chunk is fed to the parser
TLlmChunk(t) ==
    /\ At(t, "llm")
    /\ turns[t].script # <<>>
    /\ LET f == Feed(turns[t].parser, Head(turns[t].script)) IN
       turns' = [turns EXCEPT ![t] =
                    IF rInterrupt
                    THEN [@ EXCEPT !.pc = "fin", !.llm_end = "interrupted"]
                    ELSE [@ EXCEPT !.pc = IF f.segs # <<>> THEN "yield" ELSE "llm",
                                   !.script = Tail(@),
                                   !.parser = f.p,
                                   !.pending = f.segs,
                                   !.full = TRUE]]
    /\ UNCHANGED <<parserVars, hist, connVars, redisVars, memVars, sent>>
    /\ UNCHANGED <<ck, workers, queues, env>>

\* chat_stream: the provider ends the response; the interrupt check ends
\* the stream, else a final chunk is yielded
TLlmDone(t) ==
    /\ At(t, "llm")
    /\ turns[t].script = <<>>
    /\ turns' = [turns EXCEPT ![t] =
                    [@ EXCEPT !.pc = "fin",
                              !.llm_end = IF rInterrupt THEN "interrupted" ELSE "completed"]]
    /\ UNCHANGED <<parserVars, hist, connVars, redisVars, memVars, sent>>
    /\ UNCHANGED <<ck, workers, queues, env>>

\* chat_stream: the provider fails (exception, response.failed); the
\* adapter yields a final chunk with finish_reason "error"
TLlmFail(t) ==
    /\ At(t, "llm")
    /\ "llm" \in env.faults
    /\ turns' = [turns EXCEPT ![t] = [@ EXCEPT !.pc = "fin", !.llm_end = "failed"]]
    /\ UNCHANGED <<parserVars, hist, connVars, redisVars, memVars, sent>>
    /\ UNCHANGED <<ck, workers, queues, env>>

\* parser.finalize(); the remaining segment is yielded unless interrupted
TFinalize(t) ==
    /\ At(t, "fin")
    /\ LET f == Finalize(turns[t].parser) IN
       turns' = [turns EXCEPT ![t] =
                    IF f.segs # <<>> /\ ~rInterrupt
                    THEN [@ EXCEPT !.pc = "hcheck", !.parser = f.p, !.seg = f.segs[1],
                                   !.gen = "final"]
                    ELSE [@ EXCEPT !.pc = "store", !.parser = f.p]]
    /\ UNCHANGED <<parserVars, hist, connVars, redisVars, memVars, sent>>
    /\ UNCHANGED <<ck, workers, queues, env>>

\* `if full_response: store_message(assistant)`; the generator is exhausted
TStore(t) ==
    /\ At(t, "store")
    /\ messages' = IF turns[t].full
                   THEN Append(messages, [role |-> "assistant", turn |-> t])
                   ELSE messages
    /\ TGoto(t, "done_send")
    /\ UNCHANGED <<parserVars, hist, idVars, regVars, session, rInterrupt, context_vars,
                   memVars, sent>>
    /\ UNCHANGED <<callerVars, workers, queues, env>>

\* the agent's check before a segment is yielded: interrupted, it returns
TYield(t) ==
    /\ At(t, "yield")
    /\ turns' = [turns EXCEPT ![t] =
                    IF rInterrupt
                    THEN [@ EXCEPT !.pc = "done_send"]
                    ELSE [@ EXCEPT !.pc = "hcheck", !.seg = Head(turns[t].pending),
                                   !.pending = Tail(turns[t].pending)]]
    /\ UNCHANGED <<parserVars, hist, connVars, redisVars, memVars, sent>>
    /\ UNCHANGED <<ck, workers, queues, env>>

\* segment_start followed directly by the board, the speech never synthesised
SegmentStart_SkipTts(t) ==
    /\ SendMessage("segment_start", t, turns[t].seg.segment_id, turns[t].segment_count, "")
    /\ \E n \in env.tts_audio :
         turns' = [turns EXCEPT ![t] =
                      [@ EXCEPT !.pc = "board",
                                !.tts = "sentence", !.tts_n = n, !.audio_seq = 0]]

\* segment_start for the segment held; the TTS stream of its speech begins
SegmentStart(t) ==
    /\ SendMessage("segment_start", t, turns[t].seg.segment_id, turns[t].segment_count, "")
    /\ \E n \in env.tts_audio :
         turns' = [turns EXCEPT ![t] =
                      [@ EXCEPT !.pc = IF turns[t].seg.speech # <<>> THEN "tts" ELSE "board",
                                !.tts = "sentence", !.tts_n = n, !.audio_seq = 0]]

\* the handler's check of a yielded segment; SPEAKING before the first one
THCheck(t) ==
    /\ At(t, "hcheck")
    /\ IF rInterrupt
       THEN /\ turns' = [turns EXCEPT ![t] =
                            [@ EXCEPT !.pc = "done_send", !.interrupted = TRUE]]
            /\ UNCHANGED <<regVars, session, sent, conv_states>>
       ELSE IF turns[t].segment_count = 0
       THEN /\ SendStateChange1("speaking", t)
            /\ TGoto(t, "speak2")
       ELSE /\ SegmentStart(t)
            /\ UNCHANGED conv_states
    /\ UNCHANGED <<parserVars, hist, idVars, rInterrupt, messages, context_vars, memButState>>
    /\ UNCHANGED <<callerVars, workers, queues, env>>

\* send_state_change(SPEAKING): hash field
TSpeak2(t) ==
    /\ At(t, "speak2")
    /\ SendStateChange2("speaking")
    /\ TGoto(t, "segstart")
    /\ UNCHANGED <<parserVars, hist, idVars, regVars, rInterrupt, messages, context_vars, memButListening, sent>>
    /\ UNCHANGED <<callerVars, workers, queues, env>>

\* segment_start of the first segment
TSegStart(t) ==
    /\ At(t, "segstart")
    /\ SegmentStart(t)
    /\ UNCHANGED <<parserVars, hist, idVars, rInterrupt, messages, context_vars, memVars>>
    /\ UNCHANGED <<callerVars, workers, queues, env>>

\* The event the TTS adapter yields next for the segment (contract of
\* synthesize_stream_events: sentence_start, audio events, then finished
\* exactly once; the interrupt predicate cuts it short to finished).
TtsNextEvent(t) ==
    IF interrupt_flags THEN "finished"
    ELSE IF turns[t].tts = "sentence" THEN "sentence_start"
    ELSE IF turns[t].audio_seq < turns[t].tts_n THEN "audio"
    ELSE "finished"

Max(a, b) == IF a >= b THEN a ELSE b

\* the TTS event loop with the finished event passed over: no audio_end
TTtsEvent_DropAudioEnd(t) ==
    /\ At(t, "tts")
    /\ LET ev == TtsNextEvent(t)
           sid == turns[t].seg.segment_id
       IN
       IF rInterrupt
       THEN /\ turns' = [turns EXCEPT ![t] =
                            [@ EXCEPT !.pc = "done_send", !.interrupted = TRUE]]
            /\ UNCHANGED <<regVars, session, sent, tts_last_chunk_sent_at>>
       ELSE IF ev = "sentence_start"
       THEN /\ SendMessage("ai_text_delta", t, sid, 0, "")
            /\ turns' = [turns EXCEPT ![t].tts = "audio"]
            /\ UNCHANGED tts_last_chunk_sent_at
       ELSE IF ev = "audio"
       THEN /\ SendMessage("audio_chunk", t, sid, turns[t].audio_seq, "")
            /\ tts_last_chunk_sent_at' = TRUE
            /\ turns' = [turns EXCEPT ![t].audio_seq = @ + 1]
       ELSE /\ TGoto(t, "board")
            /\ UNCHANGED <<regVars, session, sent, tts_last_chunk_sent_at>>
    /\ UNCHANGED <<parserVars, hist, idVars, rInterrupt, messages, context_vars>>
    /\ UNCHANGED <<conv_states, current_stream_id, interrupt_flags, asr_tasks, asr_queues,
                   vad_states, listening_since>>
    /\ UNCHANGED <<callerVars, workers, queues, env>>

\* the TTS event loop with audio_end carrying the number of chunks sent
TTtsEvent_CountAsLast(t) ==
    /\ At(t, "tts")
    /\ LET ev == TtsNextEvent(t)
           sid == turns[t].seg.segment_id
       IN
       IF rInterrupt
       THEN /\ turns' = [turns EXCEPT ![t] =
                            [@ EXCEPT !.pc = "done_send", !.interrupted = TRUE]]
            /\ UNCHANGED <<regVars, session, sent, tts_last_chunk_sent_at>>
       ELSE IF ev = "sentence_start"
       THEN /\ SendMessage("ai_text_delta", t, sid, 0, "")
            /\ turns' = [turns EXCEPT ![t].tts = "audio"]
            /\ UNCHANGED tts_last_chunk_sent_at
       ELSE IF ev = "audio"
       THEN /\ SendMessage("audio_chunk", t, sid, turns[t].audio_seq, "")
            /\ tts_last_chunk_sent_at' = TRUE
            /\ turns' = [turns EXCEPT ![t].audio_seq = @ + 1]
       ELSE /\ SendMessage("audio_end", t, sid, turns[t].audio_seq, "")
            /\ TGoto(t, "board")
            /\ UNCHANGED tts_last_chunk_sent_at
    /\ UNCHANGED <<parserVars, hist, idVars, rInterrupt, messages, context_vars>>
    /\ UNCHANGED <<conv_states, current_stream_id, interrupt_flags, asr_tasks, asr_queues,
                   vad_states, listening_since>>
    /\ UNCHANGED <<callerVars, workers, queues, env>>

\* one TTS event: the handler's interrupt check, then the envelope of the event
TTtsEvent(t) ==
    /\ At(t, "tts")
    /\ LET ev == TtsNextEvent(t)
           sid == turns[t].seg.segment_id
       IN
       IF rInterrupt
       THEN /\ turns' = [turns EXCEPT ![t] =
                            [@ EXCEPT !.pc = "done_send", !.interrupted = TRUE]]
            /\ UNCHANGED <<regVars, session, sent, tts_last_chunk_sent_at>>
       ELSE IF ev = "sentence_start"
       THEN /\ SendMessage("ai_text_delta", t, sid, 0, "")
            /\ turns' = [turns EXCEPT ![t].tts = "audio"]
            /\ UNCHANGED tts_last_chunk_sent_at
       ELSE IF ev = "audio"
       THEN /\ SendMessage("audio_chunk", t, sid, turns[t].audio_seq, "")
            /\ tts_last_chunk_sent_at' = TRUE
            /\ turns' = [turns EXCEPT ![t].audio_seq = @ + 1]
       ELSE /\ SendMessage("audio_end", t, sid, Max(0, turns[t].audio_seq - 1), "")
            /\ TGoto(t, "board")
            /\ UNCHANGED tts_last_chunk_sent_at
    /\ UNCHANGED <<parserVars, hist, idVars, rInterrupt, messages, context_vars>>
    /\ UNCHANGED <<conv_states, current_stream_id, interrupt_flags, asr_tasks, asr_queues,
                   vad_states, listening_since>>
    /\ UNCHANGED <<callerVars, workers, queues, env>>

\* the TTS adapter raises: `except Exception` sends error 5001
TTtsFail(t) ==
    /\ At(t, "tts")
    /\ "tts" \in env.faults
    /\ SendMessage("error", t, -1, 5001, "")
    /\ turns' = [turns EXCEPT ![t] = [@ EXCEPT !.pc = "clr", !.tts_failed = TRUE]]
    /\ UNCHANGED <<parserVars, hist, idVars, rInterrupt, messages, context_vars, memVars>>
    /\ UNCHANGED <<callerVars, workers, queues, env>>

\* where the generator goes when it is resumed after a yield
AfterSegment(tn) ==
    IF tn.gen \in {"expired", "error"} THEN "done_send"
    ELSE IF tn.gen = "final" THEN "store"
    ELSE IF tn.pending # <<>> THEN "yield"
    ELSE "llm"

\* an awaited call inside the generator's try block raises (the interrupt
\* check before a yield, store_message at the end): `except Exception`
\* yields the error segment, after which the generator is exhausted
TAgentError(t) ==
    /\ turns[t].pc \in {"yield", "store"}
    /\ Runnable(t)
    /\ "agent" \in env.faults
    /\ turns' = [turns EXCEPT ![t] =
                    [@ EXCEPT !.pc = "hcheck", !.seg = ErrorSegment, !.gen = "error",
                              !.pending = <<>>]]
    /\ UNCHANGED <<parserVars, hist, connVars, redisVars, memVars, sent>>
    /\ UNCHANGED <<ck, workers, queues, env>>

\* board of the segment (when it has one), segment_count += 1, next segment
TBoard(t) ==
    /\ At(t, "board")
    /\ IF turns[t].seg.board # <<>> /\ ~turns[t].interrupted
       THEN SendMessage("board", t, turns[t].seg.segment_id, 0, "")
       ELSE UNCHANGED <<regVars, session, sent>>
    /\ turns' = [turns EXCEPT ![t] =
                    [@ EXCEPT !.pc = AfterSegment(turns[t]), !.segment_count = @ + 1]]
    /\ UNCHANGED <<parserVars, hist, idVars, rInterrupt, messages, context_vars, memVars>>
    /\ UNCHANGED <<callerVars, workers, queues, env>>

\* done{total_segments, reason}
TDone(t) ==
    /\ At(t, "done_send")
    /\ SendMessage("done", t, -1, turns[t].segment_count,
                   IF turns[t].interrupted THEN "interrupted" ELSE "completed")
    /\ TGoto(t, "clr")
    /\ UNCHANGED <<parserVars, hist, idVars, rInterrupt, messages, context_vars, memVars>>
    /\ UNCHANGED <<callerVars, workers, queues, env>>

\* clear_interrupt: the redis key and the in-memory flag
TClear(t) ==
    /\ At(t, "clr")
    /\ rInterrupt' = FALSE
    /\ interrupt_flags' = FALSE
    /\ TGoto(t, "lis")
    /\ UNCHANGED <<parserVars, hist, idVars, regVars, session, messages, context_vars, sent>>
    /\ UNCHANGED <<conv_states, current_stream_id, asr_tasks, asr_queues, vad_states,
                   tts_last_chunk_sent_at, listening_since>>
    /\ UNCHANGED <<callerVars, workers, queues, env>>

\* send_state_change(LISTENING): envelope and conv_states
TLis(t) ==
    /\ At(t, "lis")
    /\ SendStateChange1("listening", t)
    /\ TGoto(t, "lis2")
    /\ UNCHANGED <<parserVars, hist, idVars, rInterrupt, messages, context_vars, memButState>>
    /\ UNCHANGED <<callerVars, workers, queues, env>>

\* send_state_change(LISTENING): hash field; handle_text_message returns, and
\* the worker that ran it ends through its finally
TLis2(t) ==
    /\ At(t, "lis2")
    /\ SendStateChange2("listening")
    /\ TGoto(t, "finished")
    /\ LET w == turns[t].host IN
       IF w = 0
       THEN UNCHANGED <<workers, asr_tasks, asr_queues>>
       ELSE /\ workers' = [workers EXCEPT ![w].pc = "done"]
            /\ asr_tasks' = FinallyTasks(w)
            /\ asr_queues' = FinallyQueues(w)
    /\ UNCHANGED <<parserVars, hist, idVars, regVars, rInterrupt, messages, context_vars, sent>>
    /\ UNCHANGED <<conv_states, current_stream_id, interrupt_flags, vad_states,
                   tts_last_chunk_sent_at>>
    /\ UNCHANGED <<callerVars, queues, env>>
(***************************************************************************)
(* handle_user_audio_chunk, task k                                         *)
(***************************************************************************)
\* An audio frame as the VAD sees it: its level against the noise floor (at
\* most SPEECH_DB_ABOVE_NOISE above it, above that, or above
\* BARGE_IN_DB_ABOVE_NOISE as well) and the duration _estimate_frame_ms gives
Levels == {"quiet", "speech", "loud"}
FrameMs == {200, 1500}
Frames == [stream : Streams, level : Levels, ms : FrameMs]
BARGE_IN_MIN_MS == 200
END_SILENCE_MS == 1500

NoChunk == [pc |-> "unborn", wait |-> 0, q |-> 0, stream |-> "absent",
            level |-> "quiet", ms |-> 0, vad |-> NoVad]

\* every frame inside the echo window counts, whatever its level
CkVad_CountAll(k) ==
    /\ ck[k].pc = "ck_begin"
    /\ session' = HSetOther(session)
    /\ listening_since' = IF conv_states = "listening" THEN "fresh" ELSE listening_since
    /\ \E recent_tts \in (IF tts_last_chunk_sent_at THEN BOOLEAN ELSE {FALSE}) :
         LET vad == IF vad_states.present THEN vad_states ELSE NewVad(vad_states.obj + 1)
             speaking_risk == conv_states = "speaking" \/ recent_tts
             frames == IF speaking_risk THEN vad.barge_in_frames + 1 ELSE 0
             barge_in_triggered == speaking_risk /\ frames * ck[k].ms >= BARGE_IN_MIN_MS
             feed_asr == ~speaking_risk \/ barge_in_triggered
             vad2 == [vad EXCEPT !.barge_in_frames = frames]
         IN /\ vad_states' = vad2
            /\ hist' = [hist EXCEPT !.run = IF speaking_risk /\ ck[k].level = "loud"
                                            THEN @ + 1 ELSE 0]
            /\ ck' = [ck EXCEPT ![k] =
                         [@ EXCEPT !.vad = vad2,
                                   !.pc = IF barge_in_triggered /\ conv_states = "speaking"
                                          THEN "int_set"
                                          ELSE IF ~feed_asr THEN "done"
                                          ELSE "ens_begin"]]
    /\ UNCHANGED <<parserVars, connVars, rInterrupt, messages, context_vars, sent>>
    /\ UNCHANGED <<conv_states, current_stream_id, interrupt_flags, asr_tasks, asr_queues,
                   tts_last_chunk_sent_at>>
    /\ UNCHANGED <<workers, queues, turns, env>>

\* every frame goes on to the ASR session, the echo window notwithstanding
CkVad_FeedAll(k) ==
    /\ ck[k].pc = "ck_begin"
    /\ session' = HSetOther(session)
    /\ listening_since' = IF conv_states = "listening" THEN "fresh" ELSE listening_since
    /\ \E recent_tts \in (IF tts_last_chunk_sent_at THEN BOOLEAN ELSE {FALSE}) :
         LET vad == IF vad_states.present THEN vad_states ELSE NewVad(vad_states.obj + 1)
             speaking_risk == conv_states = "speaking" \/ recent_tts
             frames == IF speaking_risk /\ ck[k].level = "loud"
                       THEN vad.barge_in_frames + 1 ELSE 0
             barge_in_triggered == speaking_risk /\ frames * ck[k].ms >= BARGE_IN_MIN_MS
             vad2 == [vad EXCEPT !.barge_in_frames = frames]
         IN /\ vad_states' = vad2
            /\ hist' = [hist EXCEPT !.run = IF speaking_risk /\ ck[k].level = "loud"
                                            THEN @ + 1 ELSE 0]
            /\ ck' = [ck EXCEPT ![k] =
                         [@ EXCEPT !.vad = vad2,
                                   !.pc = IF barge_in_triggered /\ conv_states = "speaking"
                                          THEN "int_set"
                                          ELSE "ens_begin"]]
    /\ UNCHANGED <<parserVars, connVars, rInterrupt, messages, context_vars, sent>>
    /\ UNCHANGED <<conv_states, current_stream_id, interrupt_flags, asr_tasks, asr_queues,
                   tts_last_chunk_sent_at>>
    /\ UNCHANGED <<workers, queues, turns, env>>

\* update_last_active, then the VAD decision up to the first await after it
CkVad(k) ==
    /\ ck[k].pc = "ck_begin"
    /\ session' = HSetOther(session)
    /\ listening_since' = IF conv_states = "listening" THEN "fresh" ELSE listening_since
    /\ \E recent_tts \in (IF tts_last_chunk_sent_at THEN BOOLEAN ELSE {FALSE}) :
         LET vad == IF vad_states.present THEN vad_states ELSE NewVad(vad_states.obj + 1)
             speaking_risk == conv_states = "speaking" \/ recent_tts
             frames == IF speaking_risk /\ ck[k].level = "loud"
                       THEN vad.barge_in_frames + 1 ELSE 0
             barge_in_triggered == speaking_risk /\ frames * ck[k].ms >= BARGE_IN_MIN_MS
             feed_asr == ~speaking_risk \/ barge_in_triggered
             vad2 == [vad EXCEPT !.barge_in_frames = frames]
         IN /\ vad_states' = vad2
            /\ hist' = [hist EXCEPT !.run = IF speaking_risk /\ ck[k].level = "loud"
                                            THEN @ + 1 ELSE 0]
            /\ ck' = [ck EXCEPT ![k] =
                         [@ EXCEPT !.vad = vad2,
                                   !.pc = IF barge_in_triggered /\ conv_states = "speaking"
                                          THEN "int_set"
                                          ELSE IF ~feed_asr THEN "done"
                                          ELSE "ens_begin"]]
    /\ UNCHANGED <<parserVars, connVars, rInterrupt, messages, context_vars, sent>>
    /\ UNCHANGED <<conv_states, current_stream_id, interrupt_flags, asr_tasks, asr_queues,
                   tts_last_chunk_sent_at>>
    /\ UNCHANGED <<workers, queues, turns, env>>

\* handle_user_audio_chunk with the silence counted whether or not speech was heard
CkPut_NoSpeechGate(k) ==
    /\ ck[k].pc = "ck_put"
    /\ LET same == vad_states.present /\ vad_states.obj = ck[k].vad.obj
           vad == IF same THEN vad_states ELSE ck[k].vad
           speech == ck[k].level # "quiet"
           silence == vad.silence_ms + ck[k].ms
           utterance_end == ~speech /\ silence >= END_SILENCE_MS
           vad2 == IF speech THEN [vad EXCEPT !.in_speech = TRUE, !.silence_ms = 0]
                   ELSE IF utterance_end THEN [vad EXCEPT !.in_speech = FALSE, !.silence_ms = 0]
                   ELSE [vad EXCEPT !.silence_ms = silence]
       IN /\ queues' = [queues EXCEPT ![ck[k].q].items =
                           IF utterance_end THEN @ \o <<"pcm", "None">> ELSE Append(@, "pcm")]
          /\ vad_states' = IF same THEN vad2 ELSE vad_states
          /\ ck' = [ck EXCEPT ![k] = [@ EXCEPT !.pc = "done", !.vad = vad2]]
    /\ UNCHANGED <<parserVars, hist, connVars, redisVars, sent>>
    /\ UNCHANGED <<conv_states, current_stream_id, interrupt_flags, asr_tasks, asr_queues,
                   tts_last_chunk_sent_at, listening_since>>
    /\ UNCHANGED <<workers, turns, env>>

\* queue.put(pcm) on the queue ensure_asr_session returned, then endpointing
\* on the VADState object the task holds
CkPut(k) ==
    /\ ck[k].pc = "ck_put"
    /\ LET same == vad_states.present /\ vad_states.obj = ck[k].vad.obj
           vad == IF same THEN vad_states ELSE ck[k].vad
           speech == ck[k].level # "quiet"
           silence == vad.silence_ms + ck[k].ms
           utterance_end == ~speech /\ vad.in_speech /\ silence >= END_SILENCE_MS
           vad2 == IF speech THEN [vad EXCEPT !.in_speech = TRUE, !.silence_ms = 0]
                   ELSE IF ~vad.in_speech THEN vad
                   ELSE IF utterance_end THEN [vad EXCEPT !.in_speech = FALSE, !.silence_ms = 0]
                   ELSE [vad EXCEPT !.silence_ms = silence]
       IN /\ queues' = [queues EXCEPT ![ck[k].q].items =
                           IF utterance_end THEN @ \o <<"pcm", "None">> ELSE Append(@, "pcm")]
          /\ vad_states' = IF same THEN vad2 ELSE vad_states
          /\ ck' = [ck EXCEPT ![k] = [@ EXCEPT !.pc = "done", !.vad = vad2]]
    /\ UNCHANGED <<parserVars, hist, connVars, redisVars, sent>>
    /\ UNCHANGED <<conv_states, current_stream_id, interrupt_flags, asr_tasks, asr_queues,
                   tts_last_chunk_sent_at, listening_since>>
    /\ UNCHANGED <<workers, turns, env>>

(***************************************************************************)
(* websocket_endpoint, one instance per connection attempt c               *)
(***************************************************************************)
NoEp == [pc |-> "start", wait |-> 0, q |-> 0, stream |-> "absent", url |-> "absent"]

SetPc(c, pc) == ep' = [ep EXCEPT ![c].pc = pc]

\* verify_connection(websocket, conversation_id, token)
EpVerify(c) ==
    /\ ep[c].pc = "start"
    /\ LET code == VerifyConnection(token[c], session) IN
       IF code # 0
       THEN /\ ws' = [ws EXCEPT ![c] = WsClose(ws[c], code, CloseReason(code))]
            /\ SetPc(c, "rejected")
       ELSE /\ ws' = ws
            /\ SetPc(c, "connect")
    /\ UNCHANGED <<token, active_connections, connection_users, lock>>
    /\ UNCHANGED <<parserVars, hist, redisVars, memVars, taskVars, sent>>

\* ConnectionManager.connect: take the lock, close the old connection if any
ConnectAcquire(c) ==
    /\ ep[c].pc = "connect"
    /\ lock = NoConn
    /\ lock' = c
    /\ ws' = IF active_connections # NoConn
             THEN [ws EXCEPT ![active_connections] =
                      WsClose(ws[active_connections], 1000, "New connection established")]
             ELSE ws
    /\ SetPc(c, "accept")
    /\ UNCHANGED <<token, active_connections, connection_users>>
    /\ UNCHANGED <<parserVars, hist, redisVars, memVars, taskVars, sent>>

\* ConnectionManager.connect: websocket.accept() and the registry entries
ConnectRegister(c) ==
    /\ ep[c].pc = "accept"
    /\ ws' = [ws EXCEPT ![c].st = IF ws[c].st = "new" THEN "open" ELSE ws[c].st]
    /\ active_connections' = c
    /\ connection_users' = token[c].user_id
    /\ SetPc(c, "connect_hset")
    /\ UNCHANGED <<token, lock>>
    /\ UNCHANGED <<parserVars, hist, redisVars, memVars, taskVars, sent>>

\* ConnectionManager.connect: ws_connected/last_active_at, then the lock is released
ConnectFinish(c) ==
    /\ ep[c].pc = "connect_hset"
    /\ session' = HSetWsConnected(session, "true")
    /\ lock' = NoConn
    /\ SetPc(c, "idle_send")
    /\ UNCHANGED <<token, ws, active_connections, connection_users>>
    /\ UNCHANGED <<parserVars, hist, rInterrupt, messages, context_vars, memVars, taskVars, sent>>

\* send_state_change(IDLE): the state envelope and conv_states
EpIdleSend(c) ==
    /\ ep[c].pc = "idle_send"
    /\ SendStateChange1("idle", 0)
    /\ SetPc(c, "idle_hset")
    /\ UNCHANGED <<parserVars, hist, idVars, rInterrupt, messages, context_vars, memButState, taskVars>>

\* send_state_change(IDLE): the state field of the session hash
EpIdleStore(c) ==
    /\ ep[c].pc = "idle_hset"
    /\ SendStateChange2("idle")
    /\ SetPc(c, "init")
    /\ UNCHANGED <<parserVars, hist, idVars, regVars, rInterrupt, messages, context_vars, memButListening,
                   taskVars, sent>>

\* hget initial_user_message
EpInitialGet(c) ==
    /\ ep[c].pc = "init"
    /\ SetPc(c, IF session.exists /\ session.initial THEN "init_del" ELSE "loop")
    /\ UNCHANGED <<parserVars, hist, idVars, regVars, redisVars, memVars, taskVars, sent>>

\* hdel initial_user_message; create_task(handle_text_message(initial_msg))
EpInitialDel(c) ==
    /\ ep[c].pc = "init_del"
    /\ TurnsLeft
    /\ session' = [session EXCEPT !.initial = FALSE]
    /\ turns' = [turns EXCEPT ![FreshTurn] = NewTurn(0)]
    /\ SetPc(c, "loop")
    /\ UNCHANGED <<parserVars, hist, idVars, regVars, rInterrupt, messages, context_vars, memVars, sent>>
    /\ UNCHANGED <<workers, queues, ck, env>>

\* receive loop: an interrupt envelope arrives; handle_interrupt is awaited
EpRecvInterrupt(c) ==
    /\ ep[c].pc = "loop"
    /\ ws[c].st = "open"
    /\ env.interrupt > 0
    /\ env' = [env EXCEPT !.interrupt = @ - 1]
    /\ SetPc(c, "int_set")
    /\ UNCHANGED <<parserVars, hist, idVars, regVars, redisVars, memVars, sent>>
    /\ UNCHANGED <<workers, queues, turns, ck>>

\* receive loop: a mic_start envelope arrives; handle_mic_start is awaited
EpRecvMicStart(c) ==
    /\ ep[c].pc = "loop"
    /\ ws[c].st = "open"
    /\ env.mic_start > 0
    /\ env' = [env EXCEPT !.mic_start = @ - 1]
    /\ \E s \in env.streams : ep' = [ep EXCEPT ![c] = [@ EXCEPT !.pc = "mic_start", !.stream = s]]
    /\ UNCHANGED <<parserVars, hist, idVars, regVars, redisVars, memVars, sent>>
    /\ UNCHANGED <<workers, queues, turns, ck>>

\* handle_mic_start: update_last_active returns; current_stream_id and a new
\* VADState are written and ensure_asr_session is entered without an await
\* in between: with a task alive the stream id it compares is the one just
\* written, so the registered queue is returned; else the new session begins
EpMicStart(c) ==
    /\ ep[c].pc = "mic_start"
    /\ session' = HSetOther(session)
    /\ current_stream_id' = ep[c].stream
    /\ vad_states' = NewVad(vad_states.obj + 1)
    /\ IF Alive(asr_tasks)
       THEN ep' = [ep EXCEPT ![c] = [@ EXCEPT !.pc = "loop", !.q = asr_queues]]
       ELSE SetPc(c, "ens_clear")
    /\ UNCHANGED <<parserVars, hist, idVars, regVars, rInterrupt, messages, context_vars, sent>>
    /\ UNCHANGED <<conv_states, interrupt_flags, asr_tasks, asr_queues,
                   tts_last_chunk_sent_at, listening_since, taskVars>>

\* check_listening_timeout
CheckListeningTimeout == listening_since = "stale"

\* receive loop: a user_audio_chunk envelope arrives; its handler is spawned;
\* the listening timeout is checked before the loop receives again
EpRecvAudio(c) ==
    /\ ep[c].pc = "loop"
    /\ ws[c].st = "open"
    /\ env.audio # <<>>
    /\ env' = [env EXCEPT !.audio = Tail(@)]
    /\ \E k \in ChunkIds : \E fr \in Head(env.audio) :
         /\ ck[k].pc = "unborn"
         /\ \A j \in 1..(k - 1) : ck[j].pc # "unborn"
         /\ ck' = [ck EXCEPT ![k] =
                      [@ EXCEPT !.pc = "ck_begin", !.stream = fr.stream,
                                !.level = fr.level, !.ms = fr.ms]]
    /\ ws' = IF CheckListeningTimeout
             THEN [ws EXCEPT ![c] = WsClose(@, 1000, "Listening timeout")]
             ELSE ws
    /\ UNCHANGED <<token, ep, active_connections, connection_users, lock>>
    /\ UNCHANGED <<parserVars, hist, redisVars, memVars, sent>>
    /\ UNCHANGED <<workers, queues, turns>>

\* LISTENING_TIMEOUT_SECONDS pass without a write of listening_since, the
\* receive loop being kept from its idle timeout by other envelopes (ping)
ListeningTimeoutElapses ==
    /\ listening_since = "fresh"
    /\ listening_since' = "stale"
    /\ UNCHANGED <<parserVars, hist, connVars, redisVars, taskVars, sent>>
    /\ UNCHANGED <<conv_states, current_stream_id, interrupt_flags, asr_tasks, asr_queues,
                   vad_states, tts_last_chunk_sent_at>>

\* the envelopes the receive loop answers with error 1001: text that is not
\* JSON, JSON that is no envelope, an envelope of another conversation, and a
\* routed envelope without a required payload field
BadKinds == {"json", "format", "conv_id", "field"}

\* receive loop: a rejected envelope arrives; error 1001 is sent; the first
\* three kinds continue with the next receive, the last one falls through to
\* the listening-timeout check that ends the routing
EpRecvBad(c) ==
    /\ ep[c].pc = "loop"
    /\ ws[c].st = "open"
    /\ env.bad # <<>>
    /\ env' = [env EXCEPT !.bad = Tail(@)]
    /\ SendMessage("error", 0, -1, 1001, Head(env.bad))
    /\ ws' = IF Head(env.bad) = "field" /\ CheckListeningTimeout
             THEN [ws EXCEPT ![c] = WsClose(@, 1000, "Listening timeout")]
             ELSE ws
    /\ UNCHANGED <<token, ep, lock>>
    /\ UNCHANGED <<parserVars, hist, rInterrupt, messages, context_vars, memVars>>
    /\ UNCHANGED <<workers, queues, turns, ck>>

\* the time-out handled as an unexpected error: error 5001, then the close
EpIdleTimeout_Error(c) ==
    /\ ep[c].pc = "loop"
    /\ ws[c].st = "open"
    /\ \A k \in ChunkIds : ck[k].pc \in {"unborn", "done"}
    /\ SendMessage("error", 0, -1, 5001, "")
    /\ ws' = [ws EXCEPT ![c] = WsClose(@, 1000, "Idle timeout")]
    /\ UNCHANGED <<token, ep, lock>>
    /\ UNCHANGED <<parserVars, hist, rInterrupt, messages, context_vars, memVars, taskVars>>

\* receive loop: wait_for(receive_json) times out after IDLE_TIMEOUT_SECONDS
\* without an envelope (the audio-chunk tasks spawned before have long run
\* to their end): close(1000, "Idle timeout") and return
EpIdleTimeout(c) ==
    /\ ep[c].pc = "loop"
    /\ ws[c].st = "open"
    /\ \A k \in ChunkIds : ck[k].pc \in {"unborn", "done"}
    /\ ws' = [ws EXCEPT ![c] = WsClose(@, 1000, "Idle timeout")]
    /\ UNCHANGED <<token, ep, active_connections, connection_users, lock>>
    /\ UNCHANGED <<parserVars, hist, redisVars, memVars, taskVars, sent>>

\* the client closes its socket
ClientClose(c) ==
    /\ ws[c].st = "open"
    /\ ws' = [ws EXCEPT ![c].st = "closed"]
    /\ UNCHANGED <<token, ep, active_connections, connection_users, lock>>
    /\ UNCHANGED <<parserVars, hist, redisVars, memVars, taskVars, sent>>

\* receive_json raises WebSocketDisconnect on a closed socket: the finally
\* block starts with stop_asr_session, up to its `await task`
EpCleanupStop(c) ==
    /\ ep[c].pc = "loop"
    /\ ws[c].st = "closed"
    /\ queues' = StopQueues
    /\ workers' = StopWorkers
    /\ IF Alive(asr_tasks)
       THEN /\ ep' = [ep EXCEPT ![c] = [@ EXCEPT !.pc = "cleanup_wait", !.wait = asr_tasks]]
            /\ current_stream_id' = current_stream_id
       ELSE /\ SetPc(c, "cleanup_pop")
            /\ current_stream_id' = "absent"
    /\ UNCHANGED <<parserVars, hist, idVars, regVars, redisVars, sent>>
    /\ UNCHANGED <<conv_states, interrupt_flags, asr_tasks, asr_queues, vad_states,
                   tts_last_chunk_sent_at, listening_since>>
    /\ UNCHANGED <<turns, ck, env>>

\* finally: the cancelled worker has ended; current_stream_id.pop
EpCleanupWait(c) ==
    /\ ep[c].pc = "cleanup_wait"
    /\ workers[ep[c].wait].pc = "done"
    /\ current_stream_id' = "absent"
    /\ SetPc(c, "cleanup_pop")
    /\ UNCHANGED <<parserVars, hist, idVars, regVars, redisVars, sent>>
    /\ UNCHANGED <<conv_states, interrupt_flags, asr_tasks, asr_queues, vad_states,
                   tts_last_chunk_sent_at, listening_since, taskVars>>

\* finally: the pops of the module-level dictionaries
EpCleanupPop(c) ==
    /\ ep[c].pc = "cleanup_pop"
    /\ listening_since' = "absent"
    /\ vad_states' = [vad_states EXCEPT !.present = FALSE]
    /\ conv_states' = "absent"
    /\ tts_last_chunk_sent_at' = FALSE
    /\ SetPc(c, "disconnect")
    /\ UNCHANGED <<parserVars, hist, idVars, regVars, redisVars, sent>>
    /\ UNCHANGED <<current_stream_id, interrupt_flags, asr_tasks, asr_queues, taskVars>>

\* disconnect without the registry lock
Disconnect_Unlocked(c) ==
    /\ ep[c].pc = "disconnect"
    /\ lock' = c
    /\ active_connections' = NoConn
    /\ connection_users' = 0
    /\ SetPc(c, "disconnect_hset")
    /\ UNCHANGED <<token, ws>>
    /\ UNCHANGED <<parserVars, hist, redisVars, memVars, taskVars, sent>>

\* ConnectionManager.disconnect(conversation_id): the entries keyed by the
\* conversation are deleted, whichever connection they hold
Disconnect(c) ==
    /\ ep[c].pc = "disconnect"
    /\ lock = NoConn
    /\ lock' = c
    /\ active_connections' = NoConn
    /\ connection_users' = 0
    /\ SetPc(c, "disconnect_hset")
    /\ UNCHANGED <<token, ws>>
    /\ UNCHANGED <<parserVars, hist, redisVars, memVars, taskVars, sent>>

\* ConnectionManager.disconnect: ws_connected = false, then the lock is released
DisconnectFinish(c) ==
    /\ ep[c].pc = "disconnect_hset"
    /\ session' = HSetWsConnected(session, "false")
    /\ lock' = NoConn
    /\ SetPc(c, "done")
    /\ UNCHANGED <<token, ws, active_connections, connection_users>>
    /\ UNCHANGED <<parserVars, hist, rInterrupt, messages, context_vars, memVars, taskVars, sent>>

(***************************************************************************)
(* finalize_conversation (POST /end), the clean-up of the shared store     *)
(***************************************************************************)
\* redis.delete(conv:session:{id}), after the database commit
FinalizeSession ==
    /\ env.finalize = "due"
    /\ session' = NoSession
    /\ env' = [env EXCEPT !.finalize = "session"]
    /\ UNCHANGED <<parserVars, hist, connVars, rInterrupt, messages, context_vars, memVars, sent>>
    /\ UNCHANGED <<workers, queues, turns, ck>>

\* the deletes of conv:messages, conv:context, conv:vars and conv:prompt, srem
\* conv:active_set and the delete of user:active_conv; conv:interrupt and
\* conv:llm:resp_id are not among them
FinalizeRest ==
    /\ env.finalize = "session"
    /\ messages' = <<>>
    /\ context_vars' = NoVars
    /\ env' = [env EXCEPT !.finalize = "done"]
    /\ UNCHANGED <<parserVars, hist, connVars, session, rInterrupt, memVars, sent>>
    /\ UNCHANGED <<workers, queues, turns, ck>>

(***************************************************************************)
(* image envelopes                                                         *)
(***************************************************************************)
\* receive loop: an image envelope with its image_url arrives;
\* handle_image_message is awaited
EpRecvImage(c) ==
    /\ ep[c].pc = "loop"
    /\ ws[c].st = "open"
    /\ env.image # <<>>
    /\ env' = [env EXCEPT !.image = Tail(@)]
    /\ ep' = [ep EXCEPT ![c] = [@ EXCEPT !.pc = "img_active", !.url = Head(env.image)]]
    /\ UNCHANGED <<parserVars, hist, idVars, regVars, redisVars, memVars, sent>>
    /\ UNCHANGED <<workers, queues, turns, ck>>

\* handle_image_message: update_last_active
EpImageActive(c) ==
    /\ ep[c].pc = "img_active"
    /\ session' = HSetOther(session)
    /\ SetPc(c, "img_vars")
    /\ UNCHANGED <<parserVars, hist, idVars, regVars, rInterrupt, messages, context_vars,
                   memVars, taskVars, sent>>

\* handle_image_message with the hash replaced by the one field
EpImageVars_Replace(c) ==
    /\ ep[c].pc = "img_vars"
    /\ context_vars' = [NoVars EXCEPT !.exists = TRUE, !.context_image_url = ep[c].url]
    /\ SetPc(c, "img_store")
    /\ UNCHANGED <<parserVars, hist, idVars, regVars, session, rInterrupt, messages,
                   memVars, taskVars, sent>>

\* handle_image_message: hset conv:vars:{id} context_image_url
EpImageVars(c) ==
    /\ ep[c].pc = "img_vars"
    /\ context_vars' = [context_vars EXCEPT !.exists = TRUE, !.context_image_url = ep[c].url]
    /\ SetPc(c, "img_store")
    /\ UNCHANGED <<parserVars, hist, idVars, regVars, session, rInterrupt, messages,
                   memVars, taskVars, sent>>

\* handle_image_message: store_message(user, image, url)
EpImageStore(c) ==
    /\ ep[c].pc = "img_store"
    /\ messages' = Append(messages, [role |-> "user", turn |-> 0, type |-> "image",
                                     content |-> ep[c].url])
    /\ SetPc(c, "loop")
    /\ UNCHANGED <<parserVars, hist, idVars, regVars, session, rInterrupt, context_vars,
                   memVars, taskVars, sent>>
(***************************************************************************)
(* Initial states                                                          *)
(***************************************************************************)
ParserIdle ==
    /\ pWhole = <<>>
    /\ pRest = <<>>
    /\ parser = ParserInit
    /\ pOut = <<>>
    /\ pPhase = "idle"

\* nothing connected, nothing in the module-level dictionaries, no task
MemoryIdle ==
    /\ ws = [c \in Conns |-> [st |-> "new", closes |-> <<>>]]
    /\ active_connections = NoConn
    /\ connection_users = 0
    /\ lock = NoConn
    /\ rInterrupt = FALSE
    /\ messages = <<>>
    /\ conv_states = "absent"
    /\ current_stream_id = "absent"
    /\ interrupt_flags = FALSE
    /\ asr_tasks = NoTask
    /\ asr_queues = NoTask
    /\ vad_states = NoVad
    /\ tts_last_chunk_sent_at = FALSE
    /\ listening_since = "absent"
    /\ workers = [w \in WorkerIds |-> NoWorker]
    /\ queues = [w \in WorkerIds |-> [made |-> FALSE, items |-> <<>>]]
    /\ turns = [t \in TurnIds |-> NoTurn]
    /\ ck = [k \in ChunkIds |-> NoChunk]
    /\ hist = [begun |-> [r \in Callers |-> {}], ran |-> [t \in TurnIds |-> 0],
               mark |-> [t \in TurnIds |-> 0], run |-> 0]
    /\ sent = <<>>

ServerIdle ==
    /\ MemoryIdle
    /\ context_vars = SeededVars

\* the client sends nothing after connecting; no provider is reached
Silent ==
    [interrupt |-> 0, mic_start |-> 0, streams |-> {}, audio |-> <<>>,
     scripts |-> {}, tts_audio |-> {}, faults |-> {}, turns |-> 1, stable |-> FALSE,
     bad |-> <<>>, vanish |-> "never", finalize |-> "never", image |-> <<>>]

\* one connection attempt, by the owner with the token issued for the session
OneClient ==
    /\ token = [c \in Conns |-> ValidToken]
    /\ ep = [c \in Conns |-> IF c = 1 THEN NoEp ELSE [NoEp EXCEPT !.pc = "absent"]]

(***************************************************************************)
(* SpecParser: the segment parser fed in chunks                            *)
(***************************************************************************)
ParserNext == PFeed \/ PFinalize

InitParser ==
    /\ ParserHarnessInit
    /\ ServerIdle
    /\ OneClient
    /\ session = NoSession
    /\ env = Silent

SpecParser == InitParser /\ [][ParserNext]_vars

(***************************************************************************)
(* SpecConn: two connection attempts for the conversation, with arbitrary  *)
(* tokens, against a session that is missing, active or ended.             *)
(***************************************************************************)
InitConn ==
    /\ ParserIdle
    /\ ServerIdle
    /\ token \in [Conns -> Tokens]
    /\ ep = [c \in Conns |-> NoEp]
    /\ session \in {NoSession, SeededSession("active", FALSE), SeededSession("ended", FALSE)}
    /\ env = Silent

ConnNext ==
    \E c \in Conns :
        \/ EpVerify(c)
        \/ ConnectAcquire(c)
        \/ ConnectRegister(c)
        \/ ConnectFinish(c)
        \/ EpIdleSend(c)
        \/ EpIdleStore(c)
        \/ EpInitialGet(c)
        \/ ClientClose(c)
        \/ EpCleanupStop(c)
        \/ EpCleanupPop(c)
        \/ Disconnect(c)
        \/ DisconnectFinish(c)

SpecConn == InitConn /\ [][ConnNext]_vars

(***************************************************************************)
(* SpecTurn: the owner connects to an active session that may carry an     *)
(* initial user message; the turn it starts runs against LLM and TTS       *)
(* providers that may fail, while the client sends interrupt envelopes.    *)
(***************************************************************************)
InitTurn ==
    /\ ParserIdle
    /\ ServerIdle
    /\ OneClient
    /\ session \in {SeededSession("active", TRUE), SeededSession("active", FALSE)}
    /\ env = [Silent EXCEPT !.interrupt = MaxInterrupts, !.scripts = Scripts,
                            !.tts_audio = {0, MaxTtsAudio}, !.faults = {"llm", "tts"}]

AdmitNext(c) ==
    \/ EpVerify(c)
    \/ ConnectAcquire(c)
    \/ ConnectRegister(c)
    \/ ConnectFinish(c)
    \/ EpIdleSend(c)
    \/ EpIdleStore(c)
    \/ EpInitialGet(c)
    \/ EpInitialDel(c)

TurnSteps(t) ==
    \/ TBegin(t)
    \/ TProc(t)
    \/ TProc2(t)
    \/ TAgentClear(t)
    \/ TContext(t)
    \/ TLlmChunk(t)
    \/ TLlmDone(t)
    \/ TFinalize(t)
    \/ TStore(t)
    \/ TYield(t)
    \/ THCheck(t)
    \/ TSpeak2(t)
    \/ TSegStart(t)
    \/ TTtsEvent(t)
    \/ TBoard(t)
    \/ TDone(t)
    \/ TClear(t)
    \/ TLis(t)
    \/ TLis2(t)

\* provider failures inside a turn
TurnFaults(t) == TLlmFail(t) \/ TTtsFail(t)

TurnNext ==
    \/ \E c \in Conns : AdmitNext(c) \/ EpRecvInterrupt(c)
    \/ \E r \in Callers : IntSet(r) \/ IntHset(r) \/ IntLis(r) \/ IntLis2(r)
    \/ \E t \in TurnIds : TurnSteps(t) \/ TurnFaults(t)

SpecTurn == InitTurn /\ [][TurnNext]_vars

(***************************************************************************)
(* SpecAsr: the owner connects and streams audio chunks; recognised speech  *)
(* starts a turn inside the ASR worker; a loud frame while the assistant   *)
(* speaks barges in.                                                       *)
(***************************************************************************)
\* a frame loud and long enough to trigger barge-in by itself
Loud(s) == [stream |-> s, level |-> "loud", ms |-> BARGE_IN_MIN_MS]

\* a quiet frame long enough to end the utterance by itself
Silence(s) == [stream |-> s, level |-> "quiet", ms |-> END_SILENCE_MS]

InitAsr ==
    /\ ParserIdle
    /\ ServerIdle
    /\ OneClient
    /\ session = SeededSession("active", FALSE)
    /\ env = [Silent EXCEPT !.audio = <<{Loud("s1")},
                                         {Loud("s1"), Loud("s2"), Silence("s1")}>>,
                            !.scripts = {<<Triple(<<"a">>, <<"b">>)>>},
                            !.tts_audio = {1}]

AsrNext ==
    \/ \E c \in Conns :
          \/ EpVerify(c)
          \/ ConnectAcquire(c)
          \/ ConnectRegister(c)
          \/ ConnectFinish(c)
          \/ EpIdleSend(c)
          \/ EpIdleStore(c)
          \/ EpInitialGet(c)
          \/ EpRecvAudio(c)
    \/ \E k \in ChunkIds : CkVad(k) \/ CkPut(k)
    \/ \E r \in Callers :
          \/ IntSet(r)
          \/ IntWait(r)
          \/ IntHset(r)
          \/ IntLis(r)
          \/ IntLis2(r)
          \/ EnsBegin(r)
          \/ EnsWait(r)
          \/ EnsClear(r)
          \/ EnsLis(r)
          \/ EnsLis2(r)
    \/ \E w \in WorkerIds :
          \/ WConsume(w)
          \/ WPartial(w)
          \/ WFinal(w)
          \/ WStreamEnd(w)
          \/ WCheck(w)
          \/ WLis(w)
          \/ WLis2(w)
          \/ WCancelled(w)
    \/ \E t \in TurnIds : TurnSteps(t)

SpecAsr == InitAsr /\ [][AsrNext]_vars

(***************************************************************************)
(* SpecBarge: the owner connects to a session carrying an initial user     *)
(* message and sends one loud audio frame while the turn of that message   *)
(* runs.                                                                   *)
(***************************************************************************)
InitBarge ==
    /\ ParserIdle
    /\ ServerIdle
    /\ OneClient
    /\ session = SeededSession("active", TRUE)
    /\ env = [Silent EXCEPT !.audio = <<{Loud("s1")}>>,
                            !.scripts = {<<Triple(<<"a">>, <<"b">>)>>},
                            !.tts_audio = 1..MaxTtsAudio]

BargeNext ==
    \/ \E c \in Conns : AdmitNext(c) \/ EpRecvAudio(c)
    \/ \E k \in ChunkIds : CkVad(k) \/ CkPut(k)
    \/ \E r \in Callers :
          \/ IntSet(r)
          \/ IntHset(r)
          \/ IntLis(r)
          \/ IntLis2(r)
          \/ EnsBegin(r)
          \/ EnsClear(r)
          \/ EnsLis(r)
          \/ EnsLis2(r)
    \/ \E w \in WorkerIds : WConsume(w) \/ WPartial(w) \/ WFinal(w)
    \/ \E t \in TurnIds : TurnSteps(t)

SpecBarge == InitBarge /\ [][BargeNext]_vars

(***************************************************************************)
(* SpecDuet: the owner connects to a session carrying an initial user      *)
(* message and speaks while the turn of that message runs: the text        *)
(* recognised starts a second turn inside the ASR worker.                  *)
(***************************************************************************)
\* a frame of speech below the barge-in level
Speech(s) == [stream |-> s, level |-> "speech", ms |-> BARGE_IN_MIN_MS]

InitDuet ==
    /\ ParserIdle
    /\ ServerIdle
    /\ OneClient
    /\ session = SeededSession("active", TRUE)
    /\ env = [Silent EXCEPT !.audio = <<{Speech("s1")}>>,
                            !.scripts = {<<Triple(<<"a">>, <<"b">>)>>},
                            !.tts_audio = {0},
                            !.turns = MaxTurns]

DuetNext ==
    \/ \E c \in Conns : AdmitNext(c) \/ EpRecvAudio(c)
    \/ \E k \in ChunkIds : CkVad(k) \/ CkPut(k)
    \/ \E r \in Callers :
          \/ EnsBegin(r)
          \/ EnsClear(r)
          \/ EnsLis(r)
          \/ EnsLis2(r)
    \/ \E w \in WorkerIds :
          \/ WConsume(w)
          \/ WFinal(w)
          \/ WCheck(w)
    \/ \E t \in TurnIds : TurnSteps(t)

SpecDuet == InitDuet /\ [][DuetNext]_vars

(***************************************************************************)
(* SpecLoose: the segment parser fed, in chunks, a text whose speech       *)
(* blocks need not be followed by a board block and that may carry text    *)
(* outside the blocks.                                                     *)
(***************************************************************************)
SpeechOnly(a) == Tag_S \o a \o Tag_ES

Stray == <<"g">>

Pieces ==
    {SpeechOnly(a) : a \in {<<"a">>, <<"b">>, <<" ", "h", "i", " ">>}}
        \cup {Triple(<<"a">>, <<"b">>), Stray}

LooseTexts ==
    {Concat(ts) : ts \in UNION {[1..n -> Pieces] : n \in 1..MaxPieces}}

InitLoose ==
    /\ pWhole \in LooseTexts
    /\ pRest = pWhole
    /\ parser = ParserInit
    /\ pOut = <<>>
    /\ pPhase = "feeding"
    /\ ServerIdle
    /\ OneClient
    /\ session = NoSession
    /\ env = Silent

SpecLoose == InitLoose /\ [][ParserNext]_vars

(***************************************************************************)
(* SpecFallback: the turn of an initial user message whose generator may   *)
(* hit an internal error (a call inside its try block raises).             *)
(***************************************************************************)
InitFallback ==
    /\ ParserIdle
    /\ ServerIdle
    /\ OneClient
    /\ session = SeededSession("active", TRUE)
    /\ env = [Silent EXCEPT !.scripts = Scripts, !.tts_audio = {0}, !.faults = {"agent"}]

FallbackNext ==
    \/ \E c \in Conns : AdmitNext(c)
    \/ \E t \in TurnIds : TurnSteps(t) \/ TAgentError(t)

SpecFallback == InitFallback /\ [][FallbackNext]_vars

(***************************************************************************)
(* SpecVad: the owner connects to a session carrying an initial user       *)
(* message and sends two short audio frames, each loud or quiet, while     *)
(* the turn of that message runs.                                          *)
(***************************************************************************)
\* a frame half as long as BARGE_IN_MIN_MS
Short(s, level) == [stream |-> s, level |-> level, ms |-> BARGE_IN_MIN_MS \div 2]

InitVad ==
    /\ ParserIdle
    /\ ServerIdle
    /\ OneClient
    /\ session = SeededSession("active", TRUE)
    /\ env = [Silent EXCEPT !.audio = <<{Short("s1", "loud"), Short("s1", "quiet")},
                                         {Short("s1", "loud"), Short("s1", "quiet")}>>,
                            !.scripts = {<<Triple(<<"a">>, <<"b">>)>>},
                            !.tts_audio = {1}]

\* the ASR worker is left out: the frames queued are never consumed
VadNext ==
    \/ \E c \in Conns : AdmitNext(c) \/ EpRecvAudio(c)
    \/ \E k \in ChunkIds : CkVad(k)
    \/ \E r \in Callers :
          \/ IntSet(r)
          \/ IntHset(r)
          \/ IntLis(r)
          \/ IntLis2(r)
          \/ EnsBegin(r)
          \/ EnsClear(r)
          \/ EnsLis(r)
          \/ EnsLis2(r)
    \/ \E t \in TurnIds : TurnSteps(t)

SpecVad == InitVad /\ [][VadNext]_vars

(***************************************************************************)
(* SpecStable: the owner connects and sends one frame of speech; the ASR   *)
(* provider answers with a partial transcript that then stays unchanged,   *)
(* or with a final one.                                                    *)
(***************************************************************************)
InitStable ==
    /\ ParserIdle
    /\ ServerIdle
    /\ OneClient
    /\ session = SeededSession("active", FALSE)
    /\ env = [Silent EXCEPT !.audio = <<{Speech("s1")}>>,
                            !.scripts = Scripts,
                            !.tts_audio = {0, 1}]

StableNext ==
    \/ \E c \in Conns :
          \/ EpVerify(c)
          \/ ConnectAcquire(c)
          \/ ConnectRegister(c)
          \/ ConnectFinish(c)
          \/ EpIdleSend(c)
          \/ EpIdleStore(c)
          \/ EpInitialGet(c)
          \/ EpRecvAudio(c)
    \/ \E k \in ChunkIds : CkVad(k) \/ CkPut(k)
    \/ \E r \in Callers :
          \/ EnsBegin(r)
          \/ EnsClear(r)
          \/ EnsLis(r)
          \/ EnsLis2(r)
    \/ \E w \in WorkerIds :
          \/ WConsume(w)
          \/ WPartial(w)
          \/ PartialStable(w)
          \/ WFinal(w)
          \/ WCheck(w)
    \/ \E t \in TurnIds : TurnSteps(t)

SpecStable == InitStable /\ [][StableNext]_vars

(***************************************************************************)
(* SpecListen: the owner connects and sends two frames of speech; after    *)
(* the first one has put the conversation in LISTENING, any time may pass  *)
(* before the second one arrives.                                          *)
(***************************************************************************)
InitListen ==
    /\ ParserIdle
    /\ ServerIdle
    /\ OneClient
    /\ session = SeededSession("active", FALSE)
    /\ env = [Silent EXCEPT !.audio = <<{Speech("s1")}, {Speech("s1")}>>]

ListenNext ==
    \/ \E c \in Conns :
          \/ EpVerify(c)
          \/ ConnectAcquire(c)
          \/ ConnectRegister(c)
          \/ ConnectFinish(c)
          \/ EpIdleSend(c)
          \/ EpIdleStore(c)
          \/ EpInitialGet(c)
          \/ EpRecvAudio(c)
          \/ EpCleanupStop(c)
          \/ EpCleanupWait(c)
          \/ EpCleanupPop(c)
          \/ Disconnect(c)
          \/ DisconnectFinish(c)
    \/ ListeningTimeoutElapses
    \/ \E k \in ChunkIds : CkVad(k) \/ CkPut(k)
    \/ \E r \in Callers :
          \/ EnsBegin(r)
          \/ EnsClear(r)
          \/ EnsLis(r)
          \/ EnsLis2(r)
    \/ \E w \in WorkerIds :
          \/ WConsume(w)
          \/ WCancelled(w)

SpecListen == InitListen /\ [][ListenNext]_vars

(***************************************************************************)
(* SpecIdle: the owner connects, to a session that may carry an initial    *)
(* user message, may send one audio frame, and then sends nothing for      *)
(* IDLE_TIMEOUT_SECONDS.                                                   *)
(***************************************************************************)
InitIdle ==
    /\ ParserIdle
    /\ ServerIdle
    /\ OneClient
    /\ session \in {SeededSession("active", TRUE), SeededSession("active", FALSE)}
    /\ env = [Silent EXCEPT !.audio = <<{Speech("s1"), Silence("s1")}>>,
                            !.scripts = {<<Triple(<<"a">>, <<"b">>)>>},
                            !.tts_audio = {0}]

IdleNext ==
    \/ \E c \in Conns :
          \/ EpVerify(c)
          \/ ConnectAcquire(c)
          \/ ConnectRegister(c)
          \/ ConnectFinish(c)
          \/ EpIdleSend(c)
          \/ EpIdleStore(c)
          \/ EpInitialGet(c)
          \/ EpInitialDel(c)
          \/ EpRecvAudio(c)
          \/ EpIdleTimeout(c)
          \/ EpCleanupStop(c)
          \/ EpCleanupWait(c)
          \/ EpCleanupPop(c)
          \/ Disconnect(c)
          \/ DisconnectFinish(c)
    \/ \E k \in ChunkIds : CkVad(k) \/ CkPut(k)
    \/ \E r \in Callers :
          \/ EnsBegin(r)
          \/ EnsClear(r)
          \/ EnsLis(r)
          \/ EnsLis2(r)
    \/ \E w \in WorkerIds :
          \/ WConsume(w)
          \/ WPartial(w)
          \/ WCancelled(w)
    \/ \E t \in TurnIds : TurnSteps(t)

SpecIdle == InitIdle /\ [][IdleNext]_vars

(***************************************************************************)
(* SpecBad: envelopes the receive loop rejects, between audio frames       *)
(***************************************************************************)
InitBad ==
    /\ ParserIdle
    /\ ServerIdle
    /\ OneClient
    /\ session = SeededSession("active", FALSE)
    /\ \E b1, b2 \in BadKinds :
          env = [Silent EXCEPT !.audio = <<{Speech("s1")}>>, !.bad = <<b1, b2>>]

BadNext ==
    \/ ListenNext
    \/ \E c \in Conns : EpRecvBad(c)

SpecBad == InitBad /\ [][BadNext]_vars

(***************************************************************************)
(* SpecExpire: the session key runs out while the owner is connected, at   *)
(* any moment before the turn of the initial message loads its context     *)
(***************************************************************************)
InitExpire ==
    /\ ParserIdle
    /\ ServerIdle
    /\ OneClient
    /\ session = SeededSession("active", TRUE)
    /\ env = [Silent EXCEPT !.scripts = Scripts, !.tts_audio = {0}, !.vanish = "due"]

ExpireNext ==
    \/ \E c \in Conns : AdmitNext(c)
    \/ \E t \in TurnIds : TurnSteps(t)
    \/ SessionVanishes

SpecExpire == InitExpire /\ [][ExpireNext]_vars

(***************************************************************************)
(* SpecSupersede: the owner connects twice to a session carrying an        *)
(* initial user message; the later connect supersedes the earlier one      *)
(* while the turn of that message runs                                     *)
(***************************************************************************)
InitSupersede ==
    /\ ParserIdle
    /\ ServerIdle
    /\ token = [c \in Conns |-> ValidToken]
    /\ ep = [c \in Conns |-> NoEp]
    /\ session = SeededSession("active", TRUE)
    /\ env = [Silent EXCEPT !.scripts = {<<Triple(<<"a">>, <<"b">>)>>}, !.tts_audio = {0}]

SupersedeNext ==
    \/ \E c \in Conns :
          \/ AdmitNext(c)
          \/ EpCleanupStop(c)
          \/ EpCleanupPop(c)
          \/ Disconnect(c)
          \/ DisconnectFinish(c)
    \/ \E t \in TurnIds : TurnSteps(t)

SpecSupersede == InitSupersede /\ [][SupersedeNext]_vars

(***************************************************************************)
(* SpecMic: the owner streams a frame of stream s1 and sends a mic_start   *)
(* for stream s2, in either order                                          *)
(***************************************************************************)
InitMic ==
    /\ ParserIdle
    /\ ServerIdle
    /\ OneClient
    /\ session = SeededSession("active", FALSE)
    /\ env = [Silent EXCEPT !.audio = <<{Speech("s1")}>>, !.mic_start = 1,
                            !.streams = {"s2"}]

MicNext ==
    \/ \E c \in Conns :
          \/ EpVerify(c)
          \/ ConnectAcquire(c)
          \/ ConnectRegister(c)
          \/ ConnectFinish(c)
          \/ EpIdleSend(c)
          \/ EpIdleStore(c)
          \/ EpInitialGet(c)
          \/ EpRecvAudio(c)
          \/ EpRecvMicStart(c)
          \/ EpMicStart(c)
    \/ \E k \in ChunkIds : CkVad(k) \/ CkPut(k)
    \/ \E r \in Callers :
          \/ EnsBegin(r)
          \/ EnsWait(r)
          \/ EnsClear(r)
          \/ EnsLis(r)
          \/ EnsLis2(r)
    \/ \E w \in WorkerIds :
          \/ WConsume(w)
          \/ WPartial(w)
          \/ WCancelled(w)

SpecMic == InitMic /\ [][MicNext]_vars

(***************************************************************************)
(* SpecWorker: the owner streams a frame of speech and then a long frame    *)
(* of speech or silence; the recogniser may answer with a partial, a final  *)
(* or nothing; the client may tap interrupt once. The worker is followed up *)
(* to the call of handle_text_message.                                      *)
(***************************************************************************)
InitWorker ==
    /\ ParserIdle
    /\ ServerIdle
    /\ OneClient
    /\ session = SeededSession("active", FALSE)
    /\ env = [Silent EXCEPT !.audio = <<{Speech("s1")}, {Speech("s1"), Silence("s1")}>>,
                            !.interrupt = 1]

WorkerNext ==
    \/ \E c \in Conns :
          \/ EpVerify(c)
          \/ ConnectAcquire(c)
          \/ ConnectRegister(c)
          \/ ConnectFinish(c)
          \/ EpIdleSend(c)
          \/ EpIdleStore(c)
          \/ EpInitialGet(c)
          \/ EpRecvAudio(c)
          \/ EpRecvInterrupt(c)
    \/ \E k \in ChunkIds : CkVad(k) \/ CkPut(k)
    \/ \E r \in Callers :
          \/ IntSet(r)
          \/ IntWait(r)
          \/ IntHset(r)
          \/ IntLis(r)
          \/ IntLis2(r)
          \/ EnsBegin(r)
          \/ EnsClear(r)
          \/ EnsLis(r)
          \/ EnsLis2(r)
    \/ \E w \in WorkerIds :
          \/ WConsume(w)
          \/ WPartial(w)
          \/ WFinal(w)
          \/ WStreamEnd(w)
          \/ WCheck(w)
          \/ WLis(w)
          \/ WLis2(w)
          \/ WCancelled(w)

SpecWorker == InitWorker /\ [][WorkerNext]_vars

(***************************************************************************)
(* SpecFeed: the owner connects to a session carrying an initial user      *)
(* message and sends one audio frame while the turn of that message runs:  *)
(* loud and long, loud and short, or speech below the barge-in level       *)
(***************************************************************************)
InitFeed ==
    /\ ParserIdle
    /\ ServerIdle
    /\ OneClient
    /\ session = SeededSession("active", TRUE)
    /\ env = [Silent EXCEPT !.audio = <<{Loud("s1"), Short("s1", "loud"), Speech("s1")}>>,
                            !.scripts = {<<Triple(<<"a">>, <<"b">>)>>},
                            !.tts_audio = {1}]

SpecFeed == InitFeed /\ [][BargeNext]_vars

(***************************************************************************)
(* SpecEndpoint: the owner connects to a session carrying an initial user  *)
(* message and streams three frames of one stream while the turn of that   *)
(* message runs: speech, then pauses that end the utterance only together. *)
(* The level of a frame is its class against the noise floor, taken as the *)
(* same at the barge-in comparison and at the endpointing comparison.      *)
(***************************************************************************)
\* a quiet frame half as long as END_SILENCE_MS
Pause(s) == [stream |-> s, level |-> "quiet", ms |-> END_SILENCE_MS \div 2]

InitEndpoint ==
    /\ ParserIdle
    /\ ServerIdle
    /\ OneClient
    /\ session = SeededSession("active", TRUE)
    /\ env = [Silent EXCEPT !.audio = <<{Speech("s1"), Loud("s1"), Pause("s1")},
                                         {Pause("s1"), Speech("s1"), Loud("s1")},
                                         {Pause("s1"), Silence("s1"), Loud("s1")}>>,
                            !.scripts = {<<Triple(<<"a">>, <<"b">>)>>},
                            !.tts_audio = {0}]

\* the client paces its frames: a frame arrives when the tasks of the earlier
\* frames have finished
PacedAudio(c) ==
    /\ \A k \in ChunkIds : ck[k].pc \in {"unborn", "done"}
    /\ EpRecvAudio(c)

\* the ASR worker consumes nothing before it is cancelled: the frames and
\* markers queued stay in the queue
EndpointNext ==
    \/ \E c \in Conns : AdmitNext(c) \/ PacedAudio(c)
    \/ \E k \in ChunkIds : CkVad(k) \/ CkPut(k)
    \/ \E r \in Callers :
          \/ IntSet(r)
          \/ IntWait(r)
          \/ IntHset(r)
          \/ IntLis(r)
          \/ IntLis2(r)
          \/ EnsBegin(r)
          \/ EnsClear(r)
          \/ EnsLis(r)
          \/ EnsLis2(r)
    \/ \E w \in WorkerIds : WCancelled(w)
    \/ \E t \in TurnIds : TurnSteps(t)

SpecEndpoint == InitEndpoint /\ [][EndpointNext]_vars

(***************************************************************************)
(* SpecEnd: the owner connects to a session carrying an initial user       *)
(* message, may send an interrupt, and the conversation is ended through   *)
(* the API (POST /end) while the connection is open.                       *)
(***************************************************************************)
InitEnd ==
    /\ ParserIdle
    /\ ServerIdle
    /\ OneClient
    /\ session = SeededSession("active", TRUE)
    /\ env = [Silent EXCEPT !.interrupt = 1,
                            !.scripts = {<<Triple(<<"a">>, <<"b">>)>>},
                            !.tts_audio = {0},
                            !.finalize = "due"]

EndNext ==
    \/ \E c \in Conns : AdmitNext(c) \/ EpRecvInterrupt(c)
    \/ \E r \in Callers : IntSet(r) \/ IntHset(r) \/ IntLis(r) \/ IntLis2(r)
    \/ \E t \in TurnIds : TurnSteps(t)
    \/ FinalizeSession
    \/ FinalizeRest

SpecEnd == InitEnd /\ [][EndNext]_vars

(***************************************************************************)
(* SpecImage: the owner connects to a session carrying an initial user     *)
(* message, created with or without context variables, and sends two image *)
(* envelopes and an interrupt while the turn of that message runs.         *)
(***************************************************************************)
InitImage ==
    /\ ParserIdle
    /\ MemoryIdle
    /\ context_vars \in {SeededVars, NoVars}
    /\ OneClient
    /\ session = SeededSession("active", TRUE)
    /\ env = [Silent EXCEPT !.interrupt = 1,
                            !.scripts = {<<Triple(<<"a">>, <<"b">>)>>},
                            !.tts_audio = {0},
                            !.image = <<"u1", "u2">>]

ImageNext ==
    \/ \E c \in Conns :
          \/ AdmitNext(c)
          \/ EpRecvInterrupt(c)
          \/ EpRecvImage(c)
          \/ EpImageActive(c)
          \/ EpImageVars(c)
          \/ EpImageStore(c)
    \/ \E r \in Callers : IntSet(r) \/ IntHset(r) \/ IntLis(r) \/ IntLis2(r)
    \/ \E t \in TurnIds : TurnSteps(t)

SpecImage == InitImage /\ [][ImageNext]_vars

(***************************************************************************)
(* SpecGone: two connection attempts by the owner, the session carrying an *)
(* initial user message; the conversation is ended through the API at any  *)
(* moment.                                                                 *)
(***************************************************************************)
InitGone ==
    /\ ParserIdle
    /\ ServerIdle
    /\ token = [c \in Conns |-> ValidToken]
    /\ ep = [c \in Conns |-> NoEp]
    /\ session = SeededSession("active", TRUE)
    /\ env = [Silent EXCEPT !.scripts = {<<Triple(<<"a">>, <<"b">>)>>},
                            !.tts_audio = {0},
                            !.finalize = "due"]

GoneNext ==
    \/ \E c \in Conns :
          \/ AdmitNext(c)
          \/ EpCleanupStop(c)
          \/ EpCleanupPop(c)
          \/ Disconnect(c)
          \/ DisconnectFinish(c)
    \/ \E t \in TurnIds : TurnSteps(t)
    \/ FinalizeSession
    \/ FinalizeRest

SpecGone == InitGone /\ [][GoneNext]_vars

(***************************************************************************)
(* SpecTwice: two connection attempts by the owner to a session carrying   *)
(* an initial user message; each admitted connection runs the start of its *)
(* endpoint handler.                                                       *)
(***************************************************************************)
InitTwice ==
    /\ ParserIdle
    /\ ServerIdle
    /\ token = [c \in Conns |-> ValidToken]
    /\ ep = [c \in Conns |-> NoEp]
    /\ session = SeededSession("active", TRUE)
    /\ env = [Silent EXCEPT !.scripts = {<<Triple(<<"a">>, <<"b">>)>>},
                            !.tts_audio = {0},
                            !.turns = MaxTurns]

TwiceNext ==
    \/ \E c \in Conns : AdmitNext(c)
    \/ \E t \in TurnIds : TurnSteps(t)

SpecTwice == InitTwice /\ [][TwiceNext]_vars
(***************************************************************************)
(* The log of envelopes delivered to the client                            *)
(***************************************************************************)
\* positions in the log of the envelopes of a type that belong to turn t
Pos(type, t) == {i \in 1..Len(sent) : sent[i].type = type /\ sent[i].turn = t}

\* those of them that name segment k
PosSeg(type, t, k) == {i \in Pos(type, t) : sent[i].seg = k}

SegmentEnvelopes == {"segment_start", "ai_text_delta", "audio_chunk", "audio_end", "board"}

\* positions of the state envelopes of turn t that announce state st
StatePos(st, t) == {i \in Pos("state", t) : sent[i].info = st}

\* the segment envelopes of turn t delivered after the first handle_interrupt
\* that found the turn under way had returned
SentAfterInterrupt(t) ==
    {i \in (hist.mark[t] + 1)..Len(sent) :
        sent[i].turn = t /\ sent[i].type \in SegmentEnvelopes}

\* the positions of a caller inside handle_interrupt
IntPcs == {"int_set", "int_wait", "int_hset", "int_lis", "int_lis2"}

\* handle_text_message of turn t has returned
Returned(t) == turns[t].pc = "finished"

(***************************************************************************)
(* C1: when a second connection is admitted for a conversation that has a  *)
(* registered connection, the older one is closed exactly once with reason *)
(* 'New connection established', and once both endpoint handlers are       *)
(* quiescent (the older has finished its finally block, the newer waits in *)
(* its receive loop) the registry holds exactly the newer connection.      *)
(***************************************************************************)
Superseded(o) ==
    \E i \in 1..Len(ws[o].closes) : ws[o].closes[i].reason = "New connection established"

C1_Supersession ==
    \A o \in Conns : \A n \in Conns \ {o} :
        (/\ Superseded(o)
         /\ ep[o].pc = "done"
         /\ ep[n].pc = "loop" /\ ws[n].st = "open")
        => /\ active_connections = n
           /\ ws[o].closes = <<[code |-> 1000, reason |-> "New connection established"]>>

(***************************************************************************)
(* C2: once handle_interrupt has run to completion for a turn that was in  *)
(* PROCESSING or SPEAKING when it began, no segment_start, ai_text_delta,  *)
(* audio_chunk, audio_end or board envelope of that turn is sent any more, *)
(* whatever started the turn and however the interrupt interleaves with    *)
(* audio chunks. The one envelope whose interrupt check had passed before  *)
(* the interrupt was set is let through: only a second one counts.         *)
(***************************************************************************)
C2_SilentAfterInterrupt ==
    \A t \in TurnIds : hist.ran[t] > 0 => Cardinality(SentAfterInterrupt(t)) <= 1

(***************************************************************************)
(* C3: for well-formed triples, every chunking yields the same ordered     *)
(* segments (segment_id, speech, board) as feeding the text as one chunk.  *)
(***************************************************************************)
C3_ChunkingInvariant ==
    pPhase = "done" => pOut = WholeFeed(pWhole)

(***************************************************************************)
(* C4: within a turn, for every segment k: segment_start(k) precedes every *)
(* ai_text_delta and audio_chunk of k, every audio_chunk of k precedes     *)
(* audio_end(k), board(k) comes only after audio_end(k), the segment_start *)
(* of the next segment comes after audio_end(k), and done comes after      *)
(* every other envelope of the turn's segments.                            *)
(***************************************************************************)
C4_Envelope(t, i) ==
    LET e == sent[i]
        k == e.seg
    IN  /\ e.type \in {"ai_text_delta", "audio_chunk", "audio_end", "board"}
             => \E j \in PosSeg("segment_start", t, k) : j < i
        /\ e.type = "audio_chunk"
             => \A j \in PosSeg("audio_end", t, k) : i < j
        /\ e.type = "board"
             => \E j \in PosSeg("audio_end", t, k) : j < i
        /\ (e.type = "segment_start" /\ e.n > 0)
             => \E s \in Pos("segment_start", t) :
                   /\ sent[s].n = e.n - 1
                   /\ \E j \in PosSeg("audio_end", t, sent[s].seg) : s < j /\ j < i
        /\ e.type = "done"
             => \A j \in 1..Len(sent) :
                   (sent[j].turn = t /\ sent[j].type \in SegmentEnvelopes) => j < i

C4_SegmentOrder ==
    \A t \in TurnIds : \A i \in 1..Len(sent) : sent[i].turn = t => C4_Envelope(t, i)

\* a turn of two segments, each with audio and a board, ran to its done
C4_Witness ==
    \E t \in TurnIds :
        /\ \E i \in Pos("done", t) : sent[i].n = 2 /\ sent[i].info = "completed"
        /\ Cardinality(Pos("board", t)) = 2
        /\ Cardinality(Pos("audio_end", t)) = 2
        /\ Cardinality(Pos("audio_chunk", t)) >= 2

(***************************************************************************)
(* C5: an assistant message is stored for a turn only after the LLM stream *)
(* of that turn completed normally, and at most once; none is stored when  *)
(* the turn is interrupted or the LLM or TTS provider fails.               *)
(***************************************************************************)
AssistantRecords(t) ==
    {i \in 1..Len(messages) : messages[i].role = "assistant" /\ messages[i].turn = t}

C5_AssistantRecord ==
    \A t \in TurnIds :
        /\ Cardinality(AssistantRecords(t)) <= 1
        /\ AssistantRecords(t) # {}
             => /\ turns[t].llm_end = "completed"
                /\ ~turns[t].interrupted
                /\ ~turns[t].tts_failed

(***************************************************************************)
(* C6: every turn whose PROCESSING state was announced ends with exactly   *)
(* one done envelope followed by state=listening, also when it runs inside *)
(* the ASR task and that task is cancelled by stop_asr_session: once the   *)
(* task that ran handle_text_message is over (it returned, or it was       *)
(* cancelled and can send nothing more), that done and that state          *)
(* envelope have been sent.                                                *)
(***************************************************************************)
Announced(t) == StatePos("processing", t) # {}

\* the task that ran the turn has ended
Over(t) == turns[t].pc \in {"finished", "cancelled"}

Ended(t) ==
    /\ Cardinality(Pos("done", t)) = 1
    /\ \E i \in Pos("done", t) : \E j \in (i + 1)..Len(sent) :
          sent[j].type = "state" /\ sent[j].info = "listening"

C6_TurnEnds == \A t \in TurnIds : (Announced(t) /\ Over(t)) => Ended(t)

(***************************************************************************)
(* C7: when the LLM or TTS provider fails during a turn, the client gets   *)
(* exactly one error 5001, then done with reason 'interrupted', the state  *)
(* returns to LISTENING, and the connection stays open and registered.     *)
(***************************************************************************)
ProviderFailed(t) == turns[t].llm_end = "failed" \/ turns[t].tts_failed

C7_ProviderFailure ==
    \A t \in TurnIds :
        (Returned(t) /\ ProviderFailed(t) /\ hist.ran[t] = 0)
        => /\ Cardinality(Pos("error", t)) = 1
           /\ \A i \in Pos("error", t) : sent[i].n = 5001
           /\ Cardinality(Pos("done", t)) = 1
           /\ \A i \in Pos("done", t) : sent[i].info = "interrupted"
           /\ StatePos("listening", t) # {}
           /\ active_connections # NoConn
           /\ ws[active_connections].st = "open"

(***************************************************************************)
(* C8: whatever the interleaving of audio chunks, mic_start and interrupt, *)
(* a conversation has at most one live ASR worker and one live frame       *)
(* queue.                                                                  *)
(***************************************************************************)
\* a worker that has been created and has not ended, with the queue it reads
LiveWorkers == {w \in WorkerIds : workers[w].pc \notin {"unborn", "done"}}

C8_OneAsrSession == Cardinality(LiveWorkers) <= 1

(***************************************************************************)
(* C9: a connection attempt is accepted only if the token decodes (valid   *)
(* signature and expiry, type 'ws'), names the URL's conversation, the     *)
(* session exists, its user_id is the token's and its status is 'active';  *)
(* otherwise the socket is closed with the code of the first failing check *)
(* (4001..4005), no envelope is sent, and the registry, the in-memory      *)
(* state and the other connection are left unchanged.                      *)
(***************************************************************************)
GateChecks(tok, sess) ==
    <<tok.sig_ok /\ ~tok.expired /\ tok.type = "ws",
      tok.conversation_id = ThisConv,
      sess.exists,
      sess.user_id = tok.user_id,
      sess.status = "active">>

FirstFailing(checks) ==
    CHOOSE i \in 1..5 : ~checks[i] /\ \A j \in 1..(i - 1) : checks[j]

C9_GateStep(c) ==
    LET checks == GateChecks(token[c], session)
        allok == \A i \in 1..5 : checks[i]
    IN  /\ (ep'[c].pc = "connect") <=> allok
        /\ allok => ws'[c] = ws[c]
        /\ ~allok =>
              /\ ep'[c].pc = "rejected"
              /\ ws'[c].st = "closed"
              /\ Len(ws'[c].closes) = 1
              /\ ws'[c].closes[1].code = 4000 + FirstFailing(checks)
        /\ sent' = sent
        /\ \A d \in Conns \ {c} : ws'[d] = ws[d] /\ ep'[d] = ep[d]
        /\ UNCHANGED <<active_connections, connection_users, redisVars, memVars>>

C9_Accepted(c) ==
    (ep[c].pc \notin {"start", "rejected"} \/ active_connections = c)
    => /\ \A i \in 1..5 : GateChecks(token[c], session)[i]
       /\ \A i \in 1..Len(ws[c].closes) : ws[c].closes[i].code = 1000

C9_Gate ==
    /\ [](\A c \in Conns : C9_Accepted(c))
    /\ [][\A c \in Conns :
             (ep[c].pc = "start" /\ ep'[c].pc # "start") => C9_GateStep(c)]_vars

\* an attempt was rejected for a user mismatch while the other connection
\* stays registered and open
C9_Witness ==
    \E c \in Conns : \E d \in Conns \ {c} :
        /\ ep[c].pc = "rejected"
        /\ ws[c].closes[1].code = 4004
        /\ active_connections = d
        /\ ep[d].pc = "loop"
        /\ ws[d].st = "open"

(***************************************************************************)
(* C10: two interrupts handled during one turn leave what one leaves: the  *)
(* state is LISTENING and the turn was aborted once, with exactly one done *)
(* of reason 'interrupted'.                                                *)
(***************************************************************************)
C10_InterruptTwice ==
    \A t \in TurnIds :
        (Returned(t) /\ hist.ran[t] >= 2 /\ \A r \in Callers : Rec(r).pc \notin IntPcs)
        => /\ conv_states = "listening"
           /\ Cardinality(Pos("done", t)) = 1
           /\ \A i \in Pos("done", t) : sent[i].info = "interrupted"

(***************************************************************************)
(* C11: for every segment_start(k) of a turn, audio_end(k) is sent before  *)
(* the next segment_start of the turn, unless the turn ends with           *)
(* done{interrupted}; this holds however the TTS event stream of segment k *)
(* ends (finished, or the in-memory interrupt predicate stopping the       *)
(* adapter).                                                               *)
(***************************************************************************)
DoneInterrupted(t) == {i \in Pos("done", t) : sent[i].info = "interrupted"}

C12_QuietAfterDone ==
    \A i \in 1..Len(sent) : \A j \in (i + 1)..Len(sent) :
        (sent[i].type = "done" /\ sent[j].type \in SegmentEnvelopes)
        => \E p \in StatePos("processing", sent[j].turn) : p > i


(***************************************************************************)
(* C13: whenever no send_state_change call is in progress for the          *)
(* conversation and its connection is live, conv_states, the state field   *)
(* of conv:session:{id} and the state of the most recently sent state      *)
(* envelope are equal.                                                     *)
(***************************************************************************)
\* a task stands between the two awaits of send_state_change
StateChangeInProgress ==
    \/ \E r \in Callers : Rec(r).pc \in {"int_lis2", "ens_lis2", "idle_hset"}
    \/ \E w \in WorkerIds : workers[w].pc = "lis2"
    \/ \E t \in TurnIds : turns[t].pc \in {"proc2", "speak2", "lis2"}

LiveConnection == active_connections # NoConn /\ ws[active_connections].st = "open"

StateEnvelopes == {i \in 1..Len(sent) : sent[i].type = "state"}

LastStateSent == sent[CHOOSE i \in StateEnvelopes : \A j \in StateEnvelopes : j <= i].info

C13_StateAgreement ==
    (LiveConnection /\ ~StateChangeInProgress /\ StateEnvelopes # {})
        => /\ conv_states = LastStateSent
           /\ session.state = LastStateSent

(***************************************************************************)
(* C14: the state of the conversation changes only along the transition    *)
(* table: SPEAKING is entered only from PROCESSING, PROCESSING only from   *)
(* IDLE or LISTENING, IDLE only at admission (no state yet); a state that  *)
(* is set again (PROCESSING to PROCESSING) counts as entered.              *)
(***************************************************************************)
\* this step is the first half of send_state_change(st)
StateSet(st) ==
    /\ conv_states' = st
    /\ \/ conv_states # st
       \/ /\ Len(sent') = Len(sent) + 1
          /\ sent'[Len(sent')].type = "state"

C14_Table ==
    /\ StateSet("speaking") => conv_states = "processing"
    /\ StateSet("processing") => conv_states \in {"idle", "listening"}
    /\ StateSet("idle") => conv_states = "absent"

C14_TransitionTable == [][C14_Table]_vars

(***************************************************************************)
(* C15: the board part is optional for the parser: every closed speech     *)
(* block comes out as a segment, with an empty board when no board block   *)
(* follows it.  "[S]a[/S][S]b[/S]" yields exactly (0,"a",""), (1,"b","");  *)
(* stray text around "[S] hi [/S]" yields exactly (0,"hi","").             *)
(***************************************************************************)
TwoSpeeches == SpeechOnly(<<"a">>) \o SpeechOnly(<<"b">>)

Garbled == Stray \o SpeechOnly(<<" ", "h", "i", " ">>) \o Stray

\* closed speech blocks of a text
ClosedSpeeches(text) == Cardinality({i \in 1..Len(text) : OccursAt(text, Tag_ES, i)})

C15_BoardOptional ==
    pPhase = "done" =>
        /\ Len(pOut) = ClosedSpeeches(pWhole)
        /\ pWhole = TwoSpeeches
              => pOut = <<Segment(0, <<"a">>, <<>>), Segment(1, <<"b">>, <<>>)>>
        /\ pWhole = Garbled => pOut = <<Segment(0, <<"h", "i">>, <<>>)>>

(***************************************************************************)
(* C16: within one turn the segment ids of the segment_start envelopes are *)
(* 0, 1, 2, ... in emission order, the index of each segment_start equals  *)
(* its segment_id, and every segment handed to the handler has a           *)
(* non-empty speech; the segment of finalize and the fallback segments     *)
(* (session expired, internal error) included.                             *)
(***************************************************************************)
\* the handler holds a segment the generator yielded
HoldsSegment(t) == turns[t].pc \in {"hcheck", "speak2", "segstart", "tts", "board"}

C16_SegmentIds ==
    \A t \in TurnIds :
        /\ \A i \in Pos("segment_start", t) :
              /\ sent[i].seg = Cardinality({j \in Pos("segment_start", t) : j < i})
              /\ sent[i].n = sent[i].seg
        /\ HoldsSegment(t) => turns[t].seg.speech # <<>>

(***************************************************************************)
(* C17: the parser is byte-preserving: the speech and board contents of    *)
(* the segments emitted by feed and finalize, concatenated, are the input  *)
(* stream with the tags [S], [/S], [B], [/B] removed and the content of    *)
(* each block trimmed.                                                     *)
(***************************************************************************)
Tags == {Tag_S, Tag_ES, Tag_B, Tag_EB}

\* length of the text before the next "[" (the whole text when none)
RunLen(text) ==
    IF \E i \in 1..Len(text) : text[i] = "["
    THEN (CHOOSE i \in 1..Len(text) :
             text[i] = "[" /\ \A j \in 1..(i - 1) : text[j] # "[") - 1
    ELSE Len(text)

RECURSIVE Untagged(_)
Untagged(text) ==
    IF text = <<>> THEN <<>>
    ELSE IF \E tag \in Tags : OccursAt(text, tag, 1)
    THEN Untagged(From(text, Len(CHOOSE tag \in Tags : OccursAt(text, tag, 1))))
    ELSE Strip(Upto(text, RunLen(text))) \o Untagged(From(text, RunLen(text)))

RECURSIVE Contents(_)
Contents(segs) ==
    IF segs = <<>> THEN <<>>
    ELSE Head(segs).speech \o Head(segs).board \o Contents(Tail(segs))

C17_BytePreserving ==
    pPhase = "done" => Contents(pOut) = Untagged(pWhole)

(***************************************************************************)
(* C18: a frame triggers the barge-in interrupt only if the state read for *)
(* it is SPEAKING, it is above the barge-in level, and the run of frames   *)
(* above that level handled in a row inside the echo window, this frame    *)
(* included, lasts at least BARGE_IN_MIN_MS at this frame's length; a      *)
(* frame at or below the level and a frame outside the echo window reset   *)
(* the run counter to zero.                                                *)
(***************************************************************************)
C18_Frame(k) ==
    (ck[k].pc = "ck_begin" /\ ck'[k].pc # "ck_begin") =>
        /\ ck'[k].pc = "int_set" =>
              /\ conv_states = "speaking"
              /\ ck[k].level = "loud"
              /\ hist'.run * ck[k].ms >= BARGE_IN_MIN_MS
        /\ (ck[k].level # "loud" \/ (conv_states # "speaking" /\ ~tts_last_chunk_sent_at))
              => vad_states'.barge_in_frames = 0
        /\ vad_states'.barge_in_frames <= hist'.run

C18_BargeIn == [][\A k \in ChunkIds : C18_Frame(k)]_vars

\* the second of two short loud frames in a row has triggered the interrupt
C18_Witness ==
    \E k \in ChunkIds :
        /\ ck[k].pc = "int_set"
        /\ ck[k].ms < BARGE_IN_MIN_MS
        /\ ck[k].vad.barge_in_frames = 2
        /\ hist.run = 2

(***************************************************************************)
(* C19: while listening, a partial transcript that has stayed unchanged    *)
(* for PARTIAL_STABLE_SECONDS is treated as final: once that time has      *)
(* passed and the server has nothing left to run, asr_final has been sent  *)
(* and the turn has gone to PROCESSING.                                    *)
(***************************************************************************)
\* every frame received has been handled and consumed
Settled ==
    /\ env.audio = <<>>
    /\ \A k \in ChunkIds : ck[k].pc \in {"unborn", "done"}
    /\ \A w \in WorkerIds : queues[w].items = <<>>

AllTypes(type) == {i \in 1..Len(sent) : sent[i].type = type}

C19_StablePartial ==
    (env.stable /\ Settled)
        => /\ AllTypes("asr_final") # {}
           /\ \E i \in StateEnvelopes : sent[i].info = "processing"

(***************************************************************************)
(* C20: the connection is never closed with reason 'Listening timeout'     *)
(* when an audio chunk arrived less than LISTENING_TIMEOUT_SECONDS ago: in *)
(* particular not in the step of the receive loop that takes an audio      *)
(* chunk in.                                                               *)
(***************************************************************************)
ClosedForListening(c) ==
    /\ Len(ws'[c].closes) = Len(ws[c].closes) + 1
    /\ ws'[c].closes[Len(ws'[c].closes)].reason = "Listening timeout"

C20_ListeningTimeout ==
    [][\A c \in Conns : ClosedForListening(c) => env'.audio = env.audio]_vars

(***************************************************************************)
(* C21: a connection closed by the idle time-out is closed with code 1000  *)
(* and reason 'Idle timeout' and nothing else, no error envelope is sent,  *)
(* and once its cleanup has run the registry holds no entry for the        *)
(* conversation and no ASR worker is alive.                                *)
(***************************************************************************)
IdleClosed(c) ==
    \E i \in 1..Len(ws[c].closes) : ws[c].closes[i].reason = "Idle timeout"

Rejects == env'.bad # env.bad

C22_Frame ==
    Rejects =>
        /\ Len(sent') = Len(sent) + 1
        /\ sent'[Len(sent')].type = "error"
        /\ sent'[Len(sent')].n = 1001
        /\ \A c \in Conns : ep[c].pc = "loop" =>
              /\ ws'[c].st = "open"
              /\ active_connections' = c
        /\ UNCHANGED <<conv_states, asr_tasks, asr_queues, interrupt_flags,
                       rInterrupt, messages>>

C22_RejectedEnvelope == [][C22_Frame]_vars

\* the first three kinds, which continue with the next receive
C22_Continue ==
    [][(env.bad # <<>> /\ Head(env.bad) # "field") => C22_Frame]_vars

(***************************************************************************)
(* C23: when the session record has vanished as a user turn runs, the turn *)
(* does not call the LLM and appends nothing to the message log; it emits  *)
(* exactly one segment, the apology with its note board (segment 0), then  *)
(* done, then state listening.                                             *)
(***************************************************************************)
LlmCalled(t) == turns[t].pc = "llm" \/ turns[t].llm_end # "open"

C23_SessionExpired ==
    env.vanish = "done" =>
        /\ messages = <<>>
        /\ \A t \in TurnIds :
              /\ ~LlmCalled(t)
              /\ turns[t].pc = "finished" =>
                    /\ Cardinality(Pos("segment_start", t)) = 1
                    /\ Cardinality(PosSeg("segment_start", t, 0)) = 1
                    /\ Cardinality(PosSeg("board", t, 0)) = 1
                    /\ Cardinality(Pos("done", t)) = 1
                    /\ \A i \in Pos("board", t) : \A j \in Pos("done", t) : i < j
                    /\ sent[Len(sent)].type = "state"
                    /\ sent[Len(sent)].info = "listening"

\* the apology path is taken when the key runs out between the state write
\* of PROCESSING and the load of the context
ApologyTaken ==
    \E t \in TurnIds : turns[t].pc = "finished" /\ turns[t].gen = "expired"

(***************************************************************************)
(* C24: within every segment the audio_chunk envelopes carry seq 0, 1, 2,  *)
(* ... in the order they are sent; every such seq is at most the last_seq  *)
(* of the segment's audio_end, which follows them and, when a chunk was    *)
(* sent, equals the seq of the last one.                                   *)
(***************************************************************************)
\* the envelopes of type `type` of the segment of turn t opened at position i
InSegment(type, t, i) ==
    {j \in Pos(type, t) :
        /\ j > i
        /\ \A k \in Pos("segment_start", t) : ~(i < k /\ k < j)}

C24_AudioSeq ==
    \A t \in TurnIds : \A i \in Pos("segment_start", t) :
        LET chunks == InSegment("audio_chunk", t, i)
            ends == InSegment("audio_end", t, i)
        IN
        /\ \A j \in chunks :
              /\ sent[j].seg = sent[i].seg
              /\ sent[j].n = Cardinality({k \in chunks : k < j})
        /\ \A e \in ends :
              /\ sent[e].seg = sent[i].seg
              /\ \A j \in chunks : j < e /\ sent[j].n <= sent[e].n
              /\ chunks # {} => sent[e].n = Cardinality(chunks) - 1

C24_Witness ==
    \E t \in TurnIds : \E i \in Pos("segment_start", t) :
        /\ Cardinality(InSegment("audio_chunk", t, i)) = 2
        /\ \E e \in InSegment("audio_end", t, i) : sent[e].n = 1

(***************************************************************************)
(* C25: the registry holds at most one connection for the conversation;    *)
(* the conversation is in active_connections exactly when it is in         *)
(* connection_users; and connect and disconnect change the registry one    *)
(* at a time: while one of them holds the registry lock, only the holder   *)
(* changes the registry.                                                   *)
(***************************************************************************)
RegistryChanges ==
    \/ active_connections' # active_connections
    \/ connection_users' # connection_users

RegistryConsistent ==
    /\ active_connections \in Conns \cup {NoConn}
    /\ (active_connections = NoConn) <=> (connection_users = 0)

Serialized ==
    (RegistryChanges /\ lock # NoConn) =>
        /\ lock' = lock
        /\ ep'[lock].pc # ep[lock].pc

C25_Registry == [](RegistryConsistent) /\ [][Serialized]_vars

\* a connect holds the lock with its entry written while another connection
\* waits for the lock
C25_Witness ==
    \E c, d \in Conns :
        /\ c # d
        /\ lock = c
        /\ active_connections = c
        /\ ep[c].pc = "connect_hset"
        /\ ep[d].pc \in {"connect", "disconnect"}

(***************************************************************************)
(* C26: a superseding admit interrupts the superseded connection: once the *)
(* new connection is registered, no envelope of a turn started under the   *)
(* old connection is delivered to the new one, and when the old handler    *)
(* has finished that turn is no longer running.                            *)
(***************************************************************************)
\* the connections the envelopes of turn t were delivered to
Receivers(t) == {sent[i].to : i \in {j \in 1..Len(sent) : sent[j].turn = t}}

C26_SupersedeInterrupts ==
    \A t \in TurnIds :
        /\ Cardinality(Receivers(t)) <= 1
        /\ \A o \in Receivers(t) :
              (Superseded(o) /\ ep[o].pc = "done")
                  => turns[t].pc \in {"unborn", "finished"}

(***************************************************************************)
(* C27: the connection token is single-use: once a token has served one    *)
(* successful admit, a later attempt presenting the same token is rejected *)
(* by the gate.                                                            *)
(***************************************************************************)
\* connection d passed the gate and was registered
AdmittedOnce(d) == ep[d].pc \notin {"start", "rejected", "connect", "accept"}

C27_Frame ==
    \A c \in Conns :
        (/\ ep[c].pc = "start"
         /\ ep'[c].pc # "start"
         /\ \E d \in Conns \ {c} : token[d] = token[c] /\ AdmittedOnce(d))
        => ep'[c].pc = "rejected"

C27_SingleUse == [][C27_Frame]_vars

(***************************************************************************)
(* C28: when a mic_start naming another stream than the current one is     *)
(* handled while the previous stream's ASR worker is alive, that worker is *)
(* torn down, and every asr_partial and asr_final sent while the stream of *)
(* the mic_start is the current one carries that stream id.                *)
(***************************************************************************)
\* this step sends an ASR transcript envelope
SendsTranscript ==
    /\ Len(sent') = Len(sent) + 1
    /\ sent'[Len(sent')].type \in {"asr_partial", "asr_final"}

C28_Frame ==
    \A c \in Conns :
        /\ (/\ ep[c].pc = "mic_start"
            /\ ep'[c].pc # "mic_start"
            /\ Alive(asr_tasks)
            /\ workers[asr_tasks].stream # ep[c].stream)
           => workers'[asr_tasks].cancelled
        /\ (/\ SendsTranscript
            /\ ep[c].pc = "loop"
            /\ ep[c].stream # "absent"
            /\ current_stream_id = ep[c].stream)
           => sent'[Len(sent')].info = ep[c].stream

C28_NewStream == [][C28_Frame]_vars

\* the transcripts alone
C28_Transcripts ==
    [][\A c \in Conns :
         (/\ SendsTranscript
          /\ ep[c].pc = "loop"
          /\ ep[c].stream # "absent"
          /\ current_stream_id = ep[c].stream)
         => sent'[Len(sent')].info = ep[c].stream]_vars

(***************************************************************************)
(* C29: when the result stream of an ASR worker ends with no transcript    *)
(* received, the worker sends no asr_final, starts no turn and sets the    *)
(* state to LISTENING; otherwise it sends exactly one asr_final (the final *)
(* text, or the last partial) with its own stream id, no asr_partial after *)
(* it, and starts the turn unless an interrupt is pending, in which case   *)
(* it only sets the state to LISTENING.                                    *)
(***************************************************************************)
LastSent == sent'[Len(sent')]

\* worker w leaves the result loop
C29_StreamEnd(w) ==
    (workers[w].pc = "stream" /\ workers'[w].pc \notin {"stream", "done"}) =>
        \/ /\ ~workers[w].last_partial
           /\ workers'[w].pc = "lis"
           /\ sent' = sent
           /\ turns' = turns
        \/ /\ workers'[w].pc = "check"
           /\ SendsTranscript
           /\ LastSent.type = "asr_final"
           /\ LastSent.info = workers[w].stream

\* a transcript envelope comes from a worker inside its result loop, with
\* the worker's stream id; asr_final is the one that ends the loop
C29_Transcript ==
    SendsTranscript =>
        \E w \in WorkerIds :
            /\ workers[w].pc = "stream"
            /\ workers'[w] # workers[w]
            /\ LastSent.info = workers[w].stream
            /\ (LastSent.type = "asr_final") <=> (workers'[w].pc = "check")

\* after asr_final: the turn, or LISTENING when an interrupt is pending
C29_Check(w) ==
    (workers[w].pc = "check" /\ workers'[w].pc \notin {"check", "done"}) =>
        IF rInterrupt
        THEN workers'[w].pc = "lis" /\ turns' = turns /\ sent' = sent
        ELSE /\ workers'[w].pc = "turn"
             /\ turns[workers'[w].turn].pc = "unborn"
             /\ turns'[workers'[w].turn].pc = "begin"
             /\ turns'[workers'[w].turn].host = w

C29_Listening(w) ==
    (workers[w].pc = "lis" /\ workers'[w].pc = "lis2") =>
        /\ conv_states' = "listening"
        /\ turns' = turns
        /\ active_connections # NoConn =>
              /\ LastSent.type = "state"
              /\ LastSent.info = "listening"

C29_StreamEnds ==
    [][/\ C29_Transcript
       /\ \A w \in WorkerIds :
             C29_StreamEnd(w) /\ C29_Check(w) /\ C29_Listening(w)]_vars

\* the stream was ended by the end packet after a partial: the partial was
\* promoted to the one asr_final and the turn runs inside the worker
C29_Witness ==
    \E w \in WorkerIds :
        /\ workers[w].pc = "turn"
        /\ workers[w].last_partial
        /\ workers[w].ended
        /\ Cardinality(AllTypes("asr_partial")) = 1
        /\ Cardinality(AllTypes("asr_final")) = 1

(***************************************************************************)
(* C30: a client audio frame is put on the ASR frame queue exactly when it *)
(* arrives outside the echo window or triggers barge-in; every other frame *)
(* of the echo window is dropped: in_speech and the silence accumulator    *)
(* stay as they are, no ASR session is created and nothing is sent.        *)
(***************************************************************************)
PcmCount(w) == Cardinality({i \in 1..Len(queues[w].items) : queues[w].items[i] = "pcm"})

PcmCountNext(w) == Cardinality({i \in 1..Len(queues'[w].items) : queues'[w].items[i] = "pcm"})

\* the decision on the frame of task k
C30_Decision(k) ==
    (ck[k].pc = "ck_begin" /\ ck'[k].pc # "ck_begin") =>
        LET triggered == /\ ck[k].level = "loud"
                         /\ (hist.run + 1) * ck[k].ms >= BARGE_IN_MIN_MS
            dropped == ck'[k].pc = "done"
        IN  /\ (conv_states # "speaking" /\ ~tts_last_chunk_sent_at) => ~dropped
            /\ conv_states = "speaking" => (dropped <=> ~triggered)
            /\ dropped =>
                  /\ vad_states'.in_speech = vad_states.in_speech
                  /\ vad_states'.silence_ms = vad_states.silence_ms
                  /\ UNCHANGED <<asr_tasks, asr_queues, queues, workers, conv_states,
                                 current_stream_id, sent>>

\* frames reach a queue by the put of an admitted task only
C30_Enqueue ==
    (\E w \in WorkerIds : PcmCountNext(w) > PcmCount(w)) =>
        \E k \in ChunkIds : ck[k].pc = "ck_put" /\ ck'[k].pc = "done"

C30_FeedAsr == [][C30_Enqueue /\ \A k \in ChunkIds : C30_Decision(k)]_vars

\* a frame was dropped while the assistant was speaking: its task is over
\* and no ASR session was created
C30_Witness ==
    /\ conv_states = "speaking"
    /\ ck[1].pc = "done"
    /\ \A w \in WorkerIds : ~queues[w].made
    /\ asr_tasks = NoTask

(***************************************************************************)
(* C31: for a frame that reached the queue, the end-of-utterance marker    *)
(* follows it exactly when the VAD state the task holds is in speech, the  *)
(* frame is not above the speech threshold and the silence accumulated     *)
(* with it reaches END_SILENCE_MS; in_speech and the accumulator are then  *)
(* reset. A frame above the speech threshold sets in_speech and zeroes     *)
(* the accumulator. No marker is queued before a speech frame was put,     *)
(* and a frame that triggered barge-in queues no marker.                   *)
(***************************************************************************)
\* the VADState object the task k works on
HeldVad(k) ==
    IF vad_states.present /\ vad_states.obj = ck[k].vad.obj THEN vad_states ELSE ck[k].vad

PutFrames(level) == {k \in ChunkIds : ck[k].pc = "done" /\ ck[k].q # 0 /\ ck[k].level = level}

QuietMs == LET RECURSIVE Sum(_)
               Sum(S) == IF S = {} THEN 0
                         ELSE LET k == CHOOSE x \in S : TRUE IN ck[k].ms + Sum(S \ {k})
           IN Sum(PutFrames("quiet"))

C31_Step ==
    \A k \in ChunkIds :
        (ck[k].pc = "ck_put" /\ ck'[k].pc = "done") =>
            LET vad == HeldVad(k)
                quiet == ck[k].level = "quiet"
                total == vad.silence_ms + ck[k].ms
                ends == quiet /\ vad.in_speech /\ total >= END_SILENCE_MS
                after == ck'[k].vad
            IN /\ queues'[ck[k].q].items =
                     queues[ck[k].q].items \o (IF ends THEN <<"pcm", "None">> ELSE <<"pcm">>)
               /\ ends => ~after.in_speech /\ after.silence_ms = 0
               /\ ~quiet => after.in_speech /\ after.silence_ms = 0
               /\ (quiet /\ vad.in_speech /\ ~ends) => after.in_speech /\ after.silence_ms = total
               /\ (quiet /\ ~vad.in_speech) => after = vad
               /\ (ends /\ ck[k].level = "loud") => FALSE

\* in_speech only after a speech frame was put; the accumulator holds silence put
C31_Heard ==
    /\ vad_states.in_speech => PutFrames("speech") \cup PutFrames("loud") # {}
    /\ vad_states.silence_ms > 0 => vad_states.in_speech
    /\ vad_states.silence_ms <= QuietMs
    /\ vad_states.silence_ms < END_SILENCE_MS

C32_DoneReason ==
    \A t \in TurnIds :
        turns[t].llm_end = "interrupted" => Pos("done", t) = DoneInterrupted(t)

(***************************************************************************)
(* C33: once the endpoint handler of a connection has finished its cleanup *)
(* and every chunk task, ASR worker and turn started under the connection  *)
(* has ended, no in-memory entry of the conversation remains: FSM state,   *)
(* VAD state, ASR queue and worker, current stream id, interrupt flag,     *)
(* last-TTS timestamp, listening timestamp.                                *)
(***************************************************************************)
CleanedUp ==
    /\ \E c \in Conns : ep[c].pc = "done"
    /\ \A c \in Conns : ep[c].pc \in {"absent", "done", "rejected"}
    /\ \A k \in ChunkIds : ck[k].pc \in {"unborn", "done"}
    /\ \A w \in WorkerIds : workers[w].pc \in {"unborn", "done"}
    /\ \A t \in TurnIds : turns[t].pc = "unborn" \/ Over(t)

C33_NothingLeft ==
    CleanedUp =>
        /\ conv_states = "absent"
        /\ listening_since = "absent"
        /\ ~vad_states.present
        /\ asr_tasks = NoTask
        /\ asr_queues = NoTask
        /\ current_stream_id = "absent"
        /\ ~interrupt_flags
        /\ ~tts_last_chunk_sent_at

(***************************************************************************)
(* C34: when finalize_conversation completes, no conv:* key of the         *)
(* conversation is left in the shared store: session, messages and the     *)
(* interrupt flag are gone.                                                *)
(***************************************************************************)
FinalizeCompletes == env.finalize = "session" /\ env'.finalize = "done"

C34_Step == FinalizeCompletes => ~session'.exists /\ messages' = <<>> /\ ~rInterrupt'

C34_NoKeyLeft == [][C34_Step]_vars

(***************************************************************************)
(* C35: a send of a turn is best-effort. When the registered socket is     *)
(* closed the send delivers nothing, the registry entry is removed and     *)
(* ws_connected becomes 'false'; when no connection is registered the send *)
(* delivers nothing and changes neither the registry nor the session; in   *)
(* both cases the turn goes on to its next step. An envelope is delivered  *)
(* only to a registered open socket.                                       *)
(***************************************************************************)
\* the steps of a turn that send one envelope and do nothing else
SendSteps ==
    [proc |-> {"proc2"}, segstart |-> {"tts", "board"}, done_send |-> {"clr"}, lis |-> {"lis2"}]

Sends(t) == turns[t].pc \in DOMAIN SendSteps /\ turns'[t].pc \in SendSteps[turns[t].pc]

C35_Step ==
    /\ sent' # sent => /\ active_connections # NoConn
                       /\ ws[active_connections].st = "open"
                       /\ Len(sent') = Len(sent) + 1
    /\ \A t \in TurnIds :
          (turns[t].pc \in DOMAIN SendSteps /\ turns'[t].pc # turns[t].pc)
          => \/ turns'[t].pc = "cancelled"
             \/ /\ Sends(t)
                /\ SendFails => /\ sent' = sent
                                /\ active_connections' = NoConn
                                /\ connection_users' = 0
                                /\ session'.ws_connected = "false"
                /\ active_connections = NoConn
                      => UNCHANGED <<sent, active_connections, connection_users, session>>

ImageStep(c, from, to) == ep[c].pc = from /\ ep'[c].pc = to

C36_Step ==
    /\ \A c \in Conns :
          /\ ImageStep(c, "img_active", "img_vars")
                => /\ session' = [session EXCEPT !.exists = TRUE]
                   /\ UNCHANGED <<context_vars, messages>>
          /\ ImageStep(c, "img_vars", "img_store")
                => /\ context_vars'.exists
                   /\ context_vars'.context_image_url = ep[c].url
                   /\ context_vars'.other = context_vars.other
                   /\ UNCHANGED <<session, messages>>
          /\ ImageStep(c, "img_store", "loop")
                => /\ Len(messages') = Len(messages) + 1
                   /\ SubSeq(messages', 1, Len(messages)) = messages
                   /\ messages'[Len(messages')].role = "user"
                   /\ messages'[Len(messages')].type = "image"
                   /\ messages'[Len(messages')].content = ep[c].url
                   /\ UNCHANGED <<session, context_vars>>
          /\ ep[c].pc \in {"img_active", "img_vars", "img_store"} /\ ep'[c].pc # ep[c].pc
                => UNCHANGED <<rInterrupt, memVars, sent, workers, queues, turns, ck,
                               active_connections, connection_users, ws>>
    /\ context_vars' # context_vars => \E c \in Conns : ImageStep(c, "img_vars", "img_store")

SessionEnded == env.finalize \in {"session", "done"}

C37_Step ==
    /\ (SessionEnded /\ ~session.exists) => ~session'.exists
    /\ \A c \in Conns :
          (SessionEnded /\ ep[c].pc = "start" /\ ep'[c].pc # "start")
          => /\ ep'[c].pc = "rejected"
             /\ ws'[c].closes = <<[code |-> 4003, reason |-> CloseReason(4003)]>>

C37_StaysDeleted == [][C37_Step]_vars

(***************************************************************************)
(* C38: the pre-seeded initial_user_message starts at most one assistant   *)
(* turn over the life of the session, also when two connections are        *)
(* admitted one after the other or concurrently.                           *)
(***************************************************************************)
\* the turns started by an endpoint handler from the initial message
InitialTurns == {t \in TurnIds : turns[t].pc # "unborn" /\ turns[t].host = 0}

C38_OneInitialTurn == Cardinality(InitialTurns) <= 1

(***************************************************************************)
(* C39: the in-memory interrupt flag and the key conv:interrupt:{id} agree *)
(* between operations: every step that sets or clears one of them sets or  *)
(* clears the other, so interrupt_flags[id] is true iff the key is set.    *)
(***************************************************************************)
\* no handle_interrupt, ensure_asr_session or clear_interrupt call is under way
NoFlagOperation ==
    /\ \A r \in Callers : Rec(r).pc \notin IntPcs \cup {"ens_begin", "ens_wait", "ens_clear"}
    /\ \A t \in TurnIds : turns[t].pc \notin {"agent_clear", "clr"}

C39_FlagsAgree == NoFlagOperation => interrupt_flags = rInterrupt

(***************************************************************************)
(* C40: the admitted frames of one stream enter the ASR queue in the order *)
(* their envelopes were received: when the frame of a task is put, no task *)
(* of an earlier envelope of the same stream that was admitted is still on *)
(* its way to the put.                                                     *)
(***************************************************************************)
\* task j has passed the feed decision and is suspended in an await of
\* handle_interrupt or ensure_asr_session, its frame not put yet
OnItsWay(j) == ck[j].pc \in IntPcs \cup {"ens_wait", "ens_clear", "ens_lis", "ens_lis2"}

C40_Step ==
    \A k \in ChunkIds :
        (ck[k].pc = "ck_put" /\ ck'[k].pc = "done")
        => \A j \in 1..(k - 1) : ck[j].stream = ck[k].stream => ~OnItsWay(j)

C40_InOrder == [][C40_Step]_vars
====
